---- MODULE Spec2Model ----
(***************************************************************************)
(* A model of response-rewriter (src/main.ts): replaceInResponse, its      *)
(* pattern normalisation, deepReplace, the JSON and text stream            *)
(* transforms, the UTF-8 helpers and the multipart splitter.               *)
(*                                                                         *)
(* Text is modelled as JavaScript models it: a string is a sequence of     *)
(* UTF-16 code units (integers), a byte array a sequence of integers in    *)
(* 0..255.  Str("...") writes an ASCII string literal as such a sequence.  *)
(***************************************************************************)
EXTENDS Integers, Sequences, FiniteSets, TLC

(***************************************************************************)
(* Characters and strings                                                  *)
(***************************************************************************)

\* The printable ASCII characters in code order: from 32 (space) to 95, and
\* the lower-case letters and the four characters after them, from 97 to 126.
AsciiLow ==
  " !\"#$%&'()*+,-./0123456789:;<=>?@ABCDEFGHIJKLMNOPQRSTUVWXYZ[\\]^_"
AsciiHigh == "abcdefghijklmnopqrstuvwxyz{|}~"

\* The code unit of a one-character ASCII string.
Ord(c) ==
  IF \E i \in 1..Len(AsciiLow) : SubSeq(AsciiLow, i, i) = c
  THEN 31 + (CHOOSE i \in 1..Len(AsciiLow) : SubSeq(AsciiLow, i, i) = c)
  ELSE 96 + (CHOOSE i \in 1..Len(AsciiHigh) : SubSeq(AsciiHigh, i, i) = c)

\* An ASCII string literal as a sequence of code units.
Str(s) == [i \in 1..Len(s) |-> Ord(SubSeq(s, i, i))]

\* Carriage return and line feed.
CRLF == <<13, 10>>
CR == CRLF[1]
LF == CRLF[2]
TAB == LF - 1

RECURSIVE Flatten(_)
\* The concatenation of a sequence of sequences (Array.prototype.join('')).
Flatten(ss) ==
  IF Len(ss) = 0 THEN <<>>
  ELSE IF Len(ss) = 1 THEN ss[1]
  ELSE LET m == Len(ss) \div 2
       IN Flatten(SubSeq(ss, 1, m)) \o Flatten(SubSeq(ss, m + 1, Len(ss)))

\* s[from..] (String.prototype.slice(from - 1)).
Drop(s, n) == SubSeq(s, n + 1, Len(s))
Take(s, n) == SubSeq(s, 1, n)

\* Whether sub occurs in s at 1-based position p.
OccursAt(s, sub, p) ==
  /\ p >= 1
  /\ p + Len(sub) - 1 <= Len(s)
  /\ SubSeq(s, p, p + Len(sub) - 1) = sub

\* String.prototype.includes / startsWith / endsWith.
Includes(s, sub) == \E p \in 1..(Len(s) + 1) : OccursAt(s, sub, p)
StartsWith(s, sub) == OccursAt(s, sub, 1)
EndsWith(s, sub) == OccursAt(s, sub, Len(s) - Len(sub) + 1)

\* String.prototype.indexOf from position p (1-based); 0 when absent.
IndexOfFrom(s, sub, p) ==
  IF \E q \in p..(Len(s) + 1) : OccursAt(s, sub, q)
  THEN CHOOSE q \in p..(Len(s) + 1) :
         /\ OccursAt(s, sub, q)
         /\ \A q2 \in p..(q - 1) : ~OccursAt(s, sub, q2)
  ELSE 0

RECURSIVE SplitFrom(_, _, _)
\* String.prototype.split(sep) for a non-empty separator, scanning from p.
SplitFrom(s, sep, p) ==
  LET q == IndexOfFrom(s, sep, p)
  IN IF q = 0 THEN <<SubSeq(s, p, Len(s))>>
     ELSE <<SubSeq(s, p, q - 1)>> \o SplitFrom(s, sep, q + Len(sep))
Split(s, sep) == SplitFrom(s, sep, 1)

RECURSIVE Join(_, _)
\* Array.prototype.join(sep).
Join(ss, sep) ==
  IF ss = <<>> THEN <<>>
  ELSE IF Len(ss) = 1 THEN ss[1]
  ELSE ss[1] \o sep \o Join(Tail(ss), sep)

\* Code-unit classes.
IsDigit(c) == c >= Ord("0") /\ c <= Ord("9")
IsUpper(c) == c >= Ord("A") /\ c <= Ord("Z")
IsLower(c) == c >= Ord("a") /\ c <= Ord("z")
IsHexDigit(c) ==
  \/ IsDigit(c)
  \/ (c >= Ord("a") /\ c <= Ord("f"))
  \/ (c >= Ord("A") /\ c <= Ord("F"))
\* The \w class of a RegExp without the i/u flags.
IsWordChar(c) == IsDigit(c) \/ IsUpper(c) \/ IsLower(c) \/ c = Ord("_")
\* JSON whitespace, and the characters String.prototype.trim removes
\* (of those the model's texts can hold).
IsWhitespace(c) == c \in {Ord(" "), CR, LF, TAB}

\* String.prototype.toLowerCase on the ASCII letters.
LowerChar(c) == IF IsUpper(c) THEN c + (Ord("a") - Ord("A")) ELSE c
ToLowerCase(s) == [i \in 1..Len(s) |-> LowerChar(s[i])]

RECURSIVE TrimStart(_)
TrimStart(s) ==
  IF s # <<>> /\ IsWhitespace(Head(s)) THEN TrimStart(Tail(s)) ELSE s
RECURSIVE TrimEnd(_)
TrimEnd(s) ==
  IF s # <<>> /\ IsWhitespace(s[Len(s)]) THEN TrimEnd(Take(s, Len(s) - 1)) ELSE s
\* String.prototype.trim.
Trim(s) == TrimEnd(TrimStart(s))

(***************************************************************************)
(* Regular expressions: the subset of RegExp the model interprets.         *)
(* A source is compiled to a sequence of items; an item is a one-character *)
(* atom (a literal, ".", \w, \d) with a quantifier ("1", "?", "*", "+"),   *)
(* an anchor, or the opening or closing of a capture group.  Character     *)
(* classes, counted repetition, alternation, lazy quantifiers and          *)
(* quantified groups are outside the subset: Compile reports them as       *)
(* not ok, as it does a source that new RegExp rejects.                    *)
(***************************************************************************)

\* The characters of the class [.*+?^${}()|[\]\\] that replaceInResponse
\* escapes in a string search.
MetaChars ==
  {Ord("."), Ord("*"), Ord("+"), Ord("?"), Ord("^"), Ord("$"), Ord("{"),
   Ord("}"), Ord("("), Ord(")"), Ord("|"), Ord("["), Ord("]"), Ord("\\")}

Quantifiers == {Ord("*"), Ord("+"), Ord("?")}

NotCompiled == [ok |-> FALSE, items |-> <<>>, groups |-> 0]

\* The quantifier that follows the atom ending at position i of src.
QuantAt(src, i) ==
  IF i + 1 <= Len(src) /\ src[i + 1] \in Quantifiers
  THEN CASE src[i + 1] = Ord("*") -> "*"
         [] src[i + 1] = Ord("+") -> "+"
         [] OTHER -> "?"
  ELSE "1"

RECURSIVE CompileFrom(_, _, _, _, _)
\* Compiles src from position i; open is the stack of open groups and
\* groups the number of groups opened so far.
CompileFrom(src, i, items, open, groups) ==
  IF i > Len(src)
  THEN IF open = <<>> THEN [ok |-> TRUE, items |-> items, groups |-> groups]
       ELSE NotCompiled
  ELSE
    LET c == src[i]
        \* an atom that ends at position e of src
        Atom(k, ch, e) ==
          LET q == QuantAt(src, e)
              next == IF q = "1" THEN e + 1 ELSE e + 2
          IN IF next <= Len(src) /\ src[next] \in Quantifiers /\ q # "1"
             THEN NotCompiled
             ELSE CompileFrom(src, next,
                              Append(items, [k |-> k, c |-> ch, q |-> q, g |-> 0]),
                              open, groups)
        Mark(k, g, o, n) ==
          CompileFrom(src, i + 1,
                      Append(items, [k |-> k, c |-> 0, q |-> "1", g |-> g]), o, n)
    IN CASE c = Ord("\\") ->
              IF i = Len(src) THEN NotCompiled
              ELSE IF src[i + 1] = Ord("w") THEN Atom("word", 0, i + 1)
              ELSE IF src[i + 1] = Ord("d") THEN Atom("digit", 0, i + 1)
              ELSE Atom("lit", src[i + 1], i + 1)
         [] c = Ord(".") -> Atom("any", 0, i)
         [] c = Ord("(") ->
              IF i + 1 <= Len(src) /\ src[i + 1] = Ord("?") THEN NotCompiled
              ELSE Mark("open", groups + 1, <<groups + 1>> \o open, groups + 1)
         [] c = Ord(")") ->
              IF open = <<>> \/ (i + 1 <= Len(src) /\ src[i + 1] \in Quantifiers)
              THEN NotCompiled
              ELSE Mark("close", Head(open), Tail(open), groups)
         [] c = Ord("^") -> Mark("bol", 0, open, groups)
         [] c = Ord("$") -> Mark("eol", 0, open, groups)
         [] c \in Quantifiers -> NotCompiled
         [] c \in {Ord("["), Ord("]"), Ord("{"), Ord("}"), Ord("|")} -> NotCompiled
         [] OTHER -> Atom("lit", c, i)

\* new RegExp(source, flags): the compiled items with the flags.
Compile(source, flags) ==
  LET r == CompileFrom(source, 1, <<>>, <<>>, 0)
  IN [ok |-> r.ok, items |-> r.items, groups |-> r.groups,
      source |-> source, flags |-> flags]

\* Whether a one-character atom matches code unit c.
AtomMatches(it, c) ==
  CASE it.k = "lit" -> c = it.c
    [] it.k = "any" -> c \notin {LF, CR}
    [] it.k = "word" -> IsWordChar(c)
    [] it.k = "digit" -> IsDigit(c)
    [] OTHER -> FALSE

\* The length of the longest run of code units from pos that the atom matches.
RunLen(it, text, pos) ==
  CHOOSE n \in 0..(Len(text) - pos + 1) :
    /\ \A j \in 0..(n - 1) : AtomMatches(it, text[pos + j])
    /\ n = Len(text) - pos + 1 \/ ~AtomMatches(it, text[pos + n])

NoMatch == [ok |-> FALSE, s |-> 0, e |-> 0, caps |-> <<>>]
Min(a, b) == IF a <= b THEN a ELSE b
Max(a, b) == IF a >= b THEN a ELSE b

RECURSIVE MatchItems(_, _, _, _, _)
RECURSIVE TryCount(_, _, _, _, _, _, _)
RECURSIVE TryRest(_, _, _, _, _, _, _, _)
\* The backtracking matcher: items k.. against text from pos, greedy
\* quantifiers first.  caps[g] = <<start, end>> of group g (end exclusive).
MatchItems(items, text, k, pos, caps) ==
  IF k > Len(items) THEN [ok |-> TRUE, s |-> 0, e |-> pos, caps |-> caps]
  ELSE
    LET it == items[k]
    IN CASE it.k = "open" ->
              MatchItems(items, text, k + 1, pos, [caps EXCEPT ![it.g] = <<pos, pos>>])
         [] it.k = "close" ->
              MatchItems(items, text, k + 1, pos,
                         [caps EXCEPT ![it.g] = <<caps[it.g][1], pos>>])
         [] it.k = "bol" ->
              IF pos = 1 THEN MatchItems(items, text, k + 1, pos, caps) ELSE NoMatch
         [] it.k = "eol" ->
              IF pos = Len(text) + 1 THEN MatchItems(items, text, k + 1, pos, caps)
              ELSE NoMatch
         [] OTHER ->
              LET n == RunLen(it, text, pos)
                  hi == IF it.q \in {"1", "?"} THEN Min(n, 1) ELSE n
                  lo == IF it.q \in {"1", "+"} THEN 1 ELSE 0
              IN TryCount(items, text, k, pos, caps, hi, lo)
\* The result r of matching the rest after j repetitions, or the next try.
TryRest(items, text, k, pos, caps, j, lo, r) ==
  IF r.ok THEN r ELSE TryCount(items, text, k, pos, caps, j - 1, lo)
TryCount(items, text, k, pos, caps, j, lo) ==
  IF j < lo THEN NoMatch
  ELSE TryRest(items, text, k, pos, caps, j, lo,
               MatchItems(items, text, k + 1, pos + j, caps))

\* A match of the whole regex starting exactly at pos.
StartAt(r, pos) == [r EXCEPT !.s = IF r.ok THEN pos ELSE 0]
MatchAt(re, text, pos) ==
  StartAt(MatchItems(re.items, text, 1, pos, [g \in 1..re.groups |-> <<0, 0>>]), pos)

\* RegExpBuiltinExec with lastIndex = pos (1-based): a sticky regex matches
\* at pos only, any other at the first position from pos on that matches.
FirstMatch(ms) ==
  IF \E p \in DOMAIN ms : ms[p].ok
  THEN ms[CHOOSE p \in DOMAIN ms : ms[p].ok /\ \A p2 \in DOMAIN ms : ms[p2].ok => p <= p2]
  ELSE NoMatch
RegExpExec(re, text, pos) ==
  IF pos > Len(text) + 1 THEN NoMatch
  ELSE FirstMatch([p \in (IF "y" \in re.flags THEN {pos} ELSE pos..(Len(text) + 1)) |->
                     MatchAt(re, text, p)])

RECURSIVE CollectMatches(_, _, _)
RECURSIVE CollectFrom(_, _, _)
\* The matches RegExp.prototype[Symbol.replace] collects: for a global regex
\* exec is repeated from lastIndex (advanced by one after an empty match)
\* until it fails; for a non-global one there is a single exec.
CollectFrom(re, text, m) ==
  IF ~m.ok THEN <<>>
  ELSE IF "g" \notin re.flags THEN <<m>>
  ELSE <<m>> \o CollectMatches(re, text, IF m.e = m.s THEN m.e + 1 ELSE m.e)
CollectMatches(re, text, pos) == CollectFrom(re, text, RegExpExec(re, text, pos))

\* The text of capture group g of match m (empty when the group did not take part).
GroupText(text, m, g) ==
  IF m.caps[g][1] = 0 THEN <<>> ELSE SubSeq(text, m.caps[g][1], m.caps[g][2] - 1)

RECURSIVE GetSubstitution(_, _, _, _)
\* GetSubstitution: the replacement template with $$, $&, $n and the two
\* context references expanded for match m of text.
GetSubstitution(text, m, groups, repl) ==
  IF repl = <<>> THEN <<>>
  ELSE IF Head(repl) # Ord("$") \/ Len(repl) = 1
  THEN <<Head(repl)>> \o GetSubstitution(text, m, groups, Tail(repl))
  ELSE
    LET d == repl[2]
        rest == GetSubstitution(text, m, groups, Drop(repl, 2))
    IN CASE d = Ord("$") -> <<Ord("$")>> \o rest
         [] d = Ord("&") -> SubSeq(text, m.s, m.e - 1) \o rest
         [] d = 96 -> SubSeq(text, 1, m.s - 1) \o rest
         [] d = Ord("'") -> SubSeq(text, m.e, Len(text)) \o rest
         [] IsDigit(d) /\ d # Ord("0") /\ d - Ord("0") <= groups ->
              GroupText(text, m, d - Ord("0")) \o rest
         [] OTHER -> <<Ord("$")>> \o GetSubstitution(text, m, groups, Tail(repl))

RECURSIVE BuildReplaced(_, _, _, _, _)
\* The result string: the text between the matches, each match replaced.
BuildReplaced(text, ms, next, groups, repl) ==
  IF ms = <<>> THEN SubSeq(text, next, Len(text))
  ELSE LET m == Head(ms)
       IN IF m.s >= next
          THEN SubSeq(text, next, m.s - 1) \o GetSubstitution(text, m, groups, repl)
               \o BuildReplaced(text, Tail(ms), m.e, groups, repl)
          ELSE BuildReplaced(text, Tail(ms), next, groups, repl)

\* The value String.prototype.replace yields when new RegExp has thrown:
\* no string at all.
Thrown == <<-1>>

\* text.replace(re, repl).
StringReplace(text, re, repl) ==
  IF ~re.ok THEN Thrown
  ELSE BuildReplaced(text, CollectMatches(re, text, 1), 1, re.groups, repl)

\* search.replace(/[.*+?^${}()|[\]\\]/g, '\\$&'): a backslash before every
\* metacharacter.
EscapeRegExp(s) ==
  Flatten([i \in 1..Len(s) |->
             IF s[i] \in MetaChars THEN <<Ord("\\"), s[i]>> ELSE <<s[i]>>])

\* The flags of the normalised regex: g added unless present.
NormalizedFlags(flags) == IF "g" \in flags THEN flags ELSE flags \cup {"g"}

\* "Normalize search into a fresh global RegExp instance".  A search is
\* [kind |-> "string", s |-> chars] or [kind |-> "regexp", source, flags].
NormalizeSearch(search) ==
  Compile(IF search.kind = "string" THEN EscapeRegExp(search.s) ELSE search.source,
          IF search.kind = "string" THEN {"g"} ELSE NormalizedFlags(search.flags))

(***************************************************************************)
(* UTF-8 (src/main.ts 91-170) and the platform's encoder.                  *)
(***************************************************************************)

\* getUtf8SequenceInfo(byte).length: the masks (byte & 0x80) === 0,
\* (byte & 0xe0) === 0xc0, (byte & 0xf0) === 0xe0, (byte & 0xf8) === 0xf0.
getUtf8SequenceInfo(byte) ==
  IF byte - (byte % 128) = 0 THEN 1
  ELSE IF byte - (byte % 32) = 192 THEN 2
  ELSE IF byte - (byte % 16) = 224 THEN 3
  ELSE IF byte - (byte % 8) = 240 THEN 4
  ELSE 0

\* The loop over the continuation bytes.
ContinuationBytesValid(bytes) ==
  \A i \in 2..Len(bytes) : ~(bytes[i] < 128 \/ bytes[i] > 191)

\* isValidUtf8Sequence(bytes)
isValidUtf8Sequence(bytes) ==
  LET first == bytes[1]
  IN CASE Len(bytes) = 1 -> first <= 127
       [] Len(bytes) = 2 ->
            IF first < 194 \/ first > 223 THEN FALSE
            ELSE ContinuationBytesValid(bytes)
       [] Len(bytes) = 3 ->
            IF first = 224 /\ (bytes[2] < 160 \/ bytes[2] > 191) THEN FALSE
            ELSE IF first = 237 /\ (bytes[2] < 128 \/ bytes[2] > 159) THEN FALSE
            ELSE ContinuationBytesValid(bytes)
       [] Len(bytes) = 4 ->
            IF first = 240 /\ (bytes[2] < 144 \/ bytes[2] > 191) THEN FALSE
            ELSE IF first = 244 /\ (bytes[2] < 128 \/ bytes[2] > 143) THEN FALSE
            ELSE IF first < 240 \/ first > 244 THEN FALSE
            ELSE ContinuationBytesValid(bytes)
       [] OTHER -> FALSE

\* The value codePointFromUtf8 returns for an invalid sequence.
Null == -1

\* codePointFromUtf8(bytes): (first & 0x1f) << 6 | (b1 & 0x3f), and so on.
codePointFromUtf8(bytes) ==
  IF ~isValidUtf8Sequence(bytes) THEN Null
  ELSE LET first == bytes[1]
       IN CASE Len(bytes) = 1 -> first
            [] Len(bytes) = 2 -> (first % 32) * 64 + (bytes[2] % 64)
            [] Len(bytes) = 3 ->
                 (first % 16) * 4096 + (bytes[2] % 64) * 64 + (bytes[3] % 64)
            [] Len(bytes) = 4 ->
                 (first % 8) * 262144 + (bytes[2] % 64) * 4096
                 + (bytes[3] % 64) * 64 + (bytes[4] % 64)
            [] OTHER -> 0

IsHighSurrogate(u) == u >= 55296 /\ u <= 56319
IsLowSurrogate(u) == u >= 56320 /\ u <= 57343

\* The UTF-8 bytes of one code point (a scalar value).
EncodeCodePoint(cp) ==
  IF cp < 128 THEN <<cp>>
  ELSE IF cp < 2048 THEN <<192 + (cp \div 64), 128 + (cp % 64)>>
  ELSE IF cp < 65536
  THEN <<224 + (cp \div 4096), 128 + ((cp \div 64) % 64), 128 + (cp % 64)>>
  ELSE <<240 + (cp \div 262144), 128 + ((cp \div 4096) % 64),
         128 + ((cp \div 64) % 64), 128 + (cp % 64)>>

\* The bytes of the code unit at index i: a surrogate pair is encoded at its
\* high half and a lone surrogate is encoded as U+FFFD.
EncodeUnitAt(units, i) ==
  LET u == units[i]
  IN IF IsHighSurrogate(u) /\ i < Len(units) /\ IsLowSurrogate(units[i + 1])
     THEN EncodeCodePoint((u - 55296) * 1024 + (units[i + 1] - 56320) + 65536)
     ELSE IF IsLowSurrogate(u) /\ i > 1 /\ IsHighSurrogate(units[i - 1])
     THEN <<>>
     ELSE IF IsHighSurrogate(u) \/ IsLowSurrogate(u)
     THEN EncodeCodePoint(65533)
     ELSE EncodeCodePoint(u)

\* new TextEncoder().encode(string): the UTF-8 bytes of the string.
Utf8Encode(units) == Flatten([i \in 1..Len(units) |-> EncodeUnitAt(units, i)])

\* String.fromCodePoint(...codePoints): the UTF-16 code units.
FromCodePoint(cp) ==
  IF cp < 65536 THEN <<cp>>
  ELSE <<55296 + ((cp - 65536) \div 1024), 56320 + ((cp - 65536) % 1024)>>
FromCodePoints(cps) == Flatten([i \in 1..Len(cps) |-> FromCodePoint(cps[i])])

(***************************************************************************)
(* The pattern of one replaceInResponse call.  The specifications of the   *)
(* stream transforms, deepReplace, the multipart splitter and the dispatch *)
(* run with the search "ab" and the replacement "X".                       *)
(***************************************************************************)

Search == [kind |-> "string", s |-> Str("ab")]
replacement == Str("X")
regex == NormalizeSearch(Search)

\* value.replace(regex, replacement)
Replace(text) == StringReplace(text, regex, replacement)

\* Whether the pattern occurs in text.
HasPattern(text) == CollectMatches(regex, text, 1) # <<>>

VARIABLES
  rx,   \* one normalisation of a search and one replacement pass over a text
  tt,   \* the text stream: the TextTransformer fields, chunks in and out
  jt,   \* the JSON stream: the JsonTransformer fields, chunks in and out
  dr,   \* one top-level deepReplace call: the heap, the seen set, the frames
  mp,   \* the multipart branch of replaceInResponse
  rs,   \* one replaceInResponse call: the response, the path and the result
  calls, \* two replaceInResponse calls in progress and the caller's RegExp
  u8    \* one byte slice given to isValidUtf8Sequence and codePointFromUtf8

vars == <<rx, tt, jt, dr, mp, rs, calls, u8>>

\* The value of a variable that a specification does not use.
Idle == [pc |-> "idle"]

(***************************************************************************)
(* Pattern normalisation and one replacement pass (src/main.ts 518-521).   *)
(***************************************************************************)

\* Bounds of the searches and texts of SpecRegex.
MaxSearchLen == 2
MaxRxTextLen == 3

SeqsUpTo(alphabet, n) == UNION {[1..k -> alphabet] : k \in 0..n}

\* String searches: every string over a few literals and metacharacters.
SearchAlphabet == {Ord("a"), Ord("."), Ord("*"), Ord("\\")}
StringSearches ==
  {[kind |-> "string", s |-> s] : s \in SeqsUpTo(SearchAlphabet, MaxSearchLen)}

\* RegExp searches: sources of the interpreted subset, with the flags that
\* decide how a replacement pass iterates (g: global, y: sticky).
RegExpSources ==
  {Str("a"), Str("a."), Str("(a)b"), Str("a+"), Str("\\."), Str("(\\w)\\."),
   Str("^a"), Str("b$")}
RegExpSearches ==
  {[kind |-> "regexp", source |-> src, flags |-> f] :
     src \in RegExpSources, f \in SUBSET {"g", "y"}}

Replacements == {Str("X"), Str("[$&]"), Str("$1"), Str("$$a")}
RxTexts == SeqsUpTo({Ord("a"), Ord("b"), Ord(".")}, MaxRxTextLen)

RxInit ==
  /\ rx \in [pc : {"start"}, search : StringSearches \cup RegExpSearches,
             replacement : Replacements, text : RxTexts,
             regex : {NotCompiled}, result : {<<>>}]
  /\ tt = Idle /\ jt = Idle /\ dr = Idle /\ mp = Idle /\ rs = Idle /\ calls = Idle /\ u8 = Idle

\* const regex = typeof search === 'string' ? new RegExp(...) : new RegExp(...)
RxNormalize ==
  /\ rx.pc = "start"
  /\ rx' = [rx EXCEPT !.pc = "normalized", !.regex = NormalizeSearch(rx.search)]
  /\ UNCHANGED <<tt, jt, dr, mp, rs, calls, u8>>

\* value.replace(regex, replacement)
RxReplace ==
  /\ rx.pc = "normalized"
  /\ rx' = [rx EXCEPT !.pc = "done",
                      !.result = StringReplace(rx.text, rx.regex, rx.replacement)]
  /\ UNCHANGED <<tt, jt, dr, mp, rs, calls, u8>>

RxNext == RxNormalize \/ RxReplace
SpecRegex == RxInit /\ [][RxNext]_vars

RECURSIVE LiteralReplaceFrom(_, _, _, _)
\* The literal reading of a string search: every occurrence of the exact
\* code units s in text, found left to right without overlap from p, is
\* replaced by the expanded replacement (String.prototype.replaceAll).
LiteralReplaceFrom(text, s, repl, p) ==
  LET q == IndexOfFrom(text, s, p)
      m == [ok |-> TRUE, s |-> q, e |-> q + Len(s), caps |-> <<>>]
  IN IF q = 0 THEN SubSeq(text, p, Len(text))
     ELSE SubSeq(text, p, q - 1) \o GetSubstitution(text, m, 0, repl)
          \o (IF s # <<>> THEN LiteralReplaceFrom(text, s, repl, q + Len(s))
              ELSE IF q <= Len(text)
              THEN <<text[q]>> \o LiteralReplaceFrom(text, s, repl, q + 1)
              ELSE <<>>)
LiteralReplaceAll(text, s, repl) == LiteralReplaceFrom(text, s, repl, 1)

\* Every occurrence of a RegExp source in text replaced, whatever the flags
\* of the search were.
EveryOccurrenceReplaced(text, source, repl) ==
  StringReplace(text, Compile(source, {"g"}), repl)

\* The string part of C5, and what the normalised RegExp keeps of the search.
RxStringLiteral ==
  rx.search.kind = "string" =>
    rx.result = LiteralReplaceAll(rx.text, rx.search.s, rx.replacement)
RxRegExpKept ==
  rx.search.kind = "regexp" =>
    /\ rx.regex.ok
    /\ "g" \in rx.regex.flags
    /\ rx.regex.source = rx.search.source
    /\ rx.regex.flags \ {"g"} = rx.search.flags \ {"g"}

\* What holds of the normalisation: a string search is matched literally,
\* every regex metacharacter in it escaped; a RegExp search keeps its source
\* and flags with g added if missing; one replacement pass replaces every
\* occurrence, capture-group references expanded, when a RegExp search is
\* not sticky.
C5_PatternNormalization ==
  rx.pc = "done" =>
    /\ RxStringLiteral
    /\ RxRegExpKept
    /\ (rx.search.kind = "regexp" /\ "y" \notin rx.search.flags) =>
         rx.result = EveryOccurrenceReplaced(rx.text, rx.search.source, rx.replacement)

\* C5: a string search is matched literally (every regex metacharacter in it
\* escaped) and a RegExp search is used with a global flag added if missing,
\* so that one replacement pass replaces every occurrence, capture-group
\* references expanded: for every RegExp search, sticky ones included.
C5_AsClaimed ==
  rx.pc = "done" =>
    /\ RxStringLiteral
    /\ RxRegExpKept
    /\ rx.search.kind = "regexp" =>
         rx.result = EveryOccurrenceReplaced(rx.text, rx.search.source, rx.replacement)

\* A string search holding a metacharacter has matched literally
\* and been replaced, the $& reference expanded.
RxLiteralMatched ==
  /\ rx.pc = "done"
  /\ rx.search.kind = "string"
  /\ \E i \in 1..Len(rx.search.s) : rx.search.s[i] \in MetaChars
  /\ rx.replacement = Str("[$&]")
  /\ rx.result # rx.text
  /\ Len(rx.result) = Len(rx.text) + 2

(***************************************************************************)
(***************************************************************************)
(* SpecUtf8: isValidUtf8Sequence and codePointFromUtf8 on one byte slice   *)
(* (src/main.ts 107-170).  u8 holds the slice, the verdict of the          *)
(* validation and the code point returned.                                 *)
(***************************************************************************)

\* Bound: the length of the slice.
MaxSliceLen == 4

\* The bytes of the slices: ASCII, the ends of the continuation range and
\* of its sub-ranges (0x80, 0x8F, 0x90, 0x9F, 0xA0, 0xBF), lead bytes of
\* every length with the special ones (0xC1, 0xC2, 0xE0, 0xED, 0xF0, 0xF4)
\* and 0xF5, which starts nothing.
SliceBytes == {65, 127, 128, 143, 144, 159, 160, 191, 193, 194, 224, 237, 240, 244, 245}

U8Init ==
  /\ \E bytes \in SeqsUpTo(SliceBytes, MaxSliceLen) :
       u8 = [pc |-> "start", bytes |-> bytes, valid |-> FALSE, codePoint |-> Null]
  /\ rx = Idle /\ tt = Idle /\ jt = Idle /\ dr = Idle /\ mp = Idle /\ rs = Idle /\ calls = Idle

\* isValidUtf8Sequence(bytes)
U8Validate ==
  /\ u8.pc = "start"
  /\ u8' = [u8 EXCEPT !.pc = "validated", !.valid = isValidUtf8Sequence(u8.bytes)]
  /\ UNCHANGED <<rx, tt, jt, dr, mp, rs, calls>>

\* codePointFromUtf8(bytes)
U8Decode ==
  /\ u8.pc = "validated"
  /\ u8' = [u8 EXCEPT !.pc = "decoded", !.codePoint = codePointFromUtf8(u8.bytes)]
  /\ UNCHANGED <<rx, tt, jt, dr, mp, rs, calls>>

U8Next == U8Validate \/ U8Decode
SpecUtf8 == U8Init /\ [][U8Next]_vars

\* C21: for a slice that isValidUtf8Sequence accepts, codePointFromUtf8
\* returns a code point whose UTF-8 encoding is exactly the slice; for a
\* slice it rejects, codePointFromUtf8 returns null.
C21_CodecRoundTrip ==
  u8.pc = "decoded" =>
    IF u8.valid
    THEN u8.codePoint # Null /\ EncodeCodePoint(u8.codePoint) = u8.bytes
    ELSE u8.codePoint = Null

\* The least code point whose encoding has n bytes.
LeastOfLength(n) == CASE n = 1 -> 0 [] n = 2 -> 128 [] n = 3 -> 2048 [] OTHER -> 65536

\* The value the payload bits of the slice spell, the lead byte taken to
\* have the length of the slice.
PayloadValue(bytes) ==
  CASE Len(bytes) = 1 -> bytes[1] % 128
    [] Len(bytes) = 2 -> (bytes[1] % 32) * 64 + (bytes[2] % 64)
    [] Len(bytes) = 3 -> (bytes[1] % 16) * 4096 + (bytes[2] % 64) * 64 + (bytes[3] % 64)
    [] OTHER -> (bytes[1] % 8) * 262144 + (bytes[2] % 64) * 4096
                + (bytes[3] % 64) * 64 + (bytes[4] % 64)

\* RFC 3629: the slice is the encoding of one Unicode scalar value.
WellFormedRfc3629(bytes) ==
  /\ Len(bytes) \in 1..4
  /\ \/ Len(bytes) = 1 /\ bytes[1] <= 127
     \/ Len(bytes) = 2 /\ bytes[1] \in 192..223
     \/ Len(bytes) = 3 /\ bytes[1] \in 224..239
     \/ Len(bytes) = 4 /\ bytes[1] \in 240..247
  /\ \A i \in 2..Len(bytes) : bytes[i] \in 128..191
  /\ PayloadValue(bytes) >= LeastOfLength(Len(bytes))
  /\ PayloadValue(bytes) \notin 55296..57343
  /\ PayloadValue(bytes) <= 1114111

\* C22: isValidUtf8Sequence accepts a slice only if it is the well-formed
\* RFC 3629 encoding of one scalar value: lead byte matching the length, no
\* overlong encoding, no surrogate, nothing above U+10FFFF, continuation
\* bytes in [0x80,0xBF].
C22_StrictValidity ==
  u8.pc # "start" => (u8.valid => WellFormedRfc3629(u8.bytes))

(* The text stream transform (src/main.ts 729-902).                        *)
(*                                                                         *)
(* tt holds the TextTransformer fields (buffer, maxWindowSize, utf8Buffer, *)
(* lastScript), the locals of the transform call in progress (allBytes, i, *)
(* codePoints, lastSafeIndex, currentScript), the chunks consumed so far   *)
(* (input) and the strings enqueued so far (output).  A chunk is a string  *)
(* as TextDecoderStream delivers it: whole code points.                    *)
(* maxWindowSize is a field that start() sets from DEFAULT_MAX_WINDOW      *)
(* (1024); the model starts it at every size from 1 to MaxWindow, so that  *)
(* a run longer than the window fits into a short chunk.                   *)
(***************************************************************************)

\* Bounds: the code points of all chunks of one stream, and the window sizes.
MaxInputLen == 4
MaxWindow == 1

\* DEFAULT_SAFE_BREAK_POINTS, as code points.
DEFAULT_SAFE_BREAK_POINTS ==
  {Ord(" "), LF, CR, TAB, Ord("."), Ord(","), Ord("!"), Ord("?"), Ord(";"),
   Ord(":"), Ord(")"), Ord("]"), Ord("}"),
   12290, 12289, 65292, 65281, 65311, 65307, 65306, 65289, 12305, 12303, 12299}

\* The script of a code point: CJK Unified Ideographs, Hiragana, Katakana;
\* Latin letters; "none" for null.
ScriptOf(codePoint) ==
  IF \/ (codePoint >= 19968 /\ codePoint <= 40959)
     \/ (codePoint >= 12352 /\ codePoint <= 12447)
     \/ (codePoint >= 12448 /\ codePoint <= 12543)
  THEN "CJK"
  ELSE IF \/ (codePoint >= 65 /\ codePoint <= 90)
          \/ (codePoint >= 97 /\ codePoint <= 122)
  THEN "Latin"
  ELSE "none"

\* Array.from(segmenter.segment(char)).some(seg => seg.isWordLike) for one
\* character of the CJK ranges: a letter (ideograph, kana) is word-like, the
\* marks and punctuation of the kana blocks are not.
IsWordLike(codePoint) ==
  codePoint \notin ({12352, 12448, 12539} \cup (12441..12444))

\* The locals of a transform call that has consumed chunk.
BeginScan(t, chunk) ==
  [t EXCEPT !.pc = "scan",
            !.allBytes = t.utf8Buffer \o Utf8Encode(chunk),
            !.utf8Buffer = <<>>,
            !.lastSafeIndex = 0,
            !.i = 1,
            !.currentScript = t.lastScript,
            !.codePoints = <<>>,
            !.input = Append(t.input, chunk)]

\* An iteration that, on a forced window emission, leaves the safe index
\* where it was.
ScanStepKeepingIndex(t) ==
  LET len == getUtf8SequenceInfo(t.allBytes[t.i])
      charBytes == SubSeq(t.allBytes, t.i, t.i + len - 1)
      codePoint == codePointFromUtf8(charBytes)
      pushed == Append(t.codePoints, codePoint)
      script == ScriptOf(codePoint)
      safe ==
        IF codePoint \in DEFAULT_SAFE_BREAK_POINTS THEN Len(pushed)
        ELSE IF script = "CJK"
        THEN IF IsWordLike(codePoint) /\ t.currentScript # "Latin"
             THEN Len(pushed) ELSE t.lastSafeIndex
        ELSE IF script = "Latin" /\ t.currentScript = "CJK" THEN Len(pushed)
        ELSE t.lastSafeIndex
      current == IF script # "none" THEN script ELSE t.currentScript
      \* codePoints.length = 0; codePoints.push(...codePoints.slice(lastSafeIndex))
      cleared == <<>>
  IN IF len = 0 \/ t.i + len - 1 > Len(t.allBytes)
     THEN [t EXCEPT !.utf8Buffer = Drop(t.allBytes, t.i - 1),
                    !.i = Len(t.allBytes) + 1]
     ELSE IF ~isValidUtf8Sequence(charBytes) THEN [t EXCEPT !.i = t.i + 1]
     ELSE IF codePoint = Null \/ codePoint > 1114111 THEN [t EXCEPT !.i = t.i + 1]
     ELSE IF Len(pushed) - safe > t.maxWindowSize /\ safe > 0
     THEN [t EXCEPT !.output =
                      Append(t.output, Replace(FromCodePoints(Take(pushed, safe)))),
                    !.codePoints = cleared \o Drop(cleared, safe),
                    !.lastSafeIndex = safe,
                    !.currentScript = current,
                    !.i = t.i + len]
     ELSE [t EXCEPT !.codePoints = pushed,
                    !.lastSafeIndex = safe,
                    !.currentScript = current,
                    !.i = t.i + len]

\* One iteration of while (i < allBytes.length), t.i being 1-based.
ScanStep(t) ==
  LET len == getUtf8SequenceInfo(t.allBytes[t.i])
      charBytes == SubSeq(t.allBytes, t.i, t.i + len - 1)
      codePoint == codePointFromUtf8(charBytes)
      pushed == Append(t.codePoints, codePoint)
      script == ScriptOf(codePoint)
      safe ==
        IF codePoint \in DEFAULT_SAFE_BREAK_POINTS THEN Len(pushed)
        ELSE IF script = "CJK"
        THEN IF IsWordLike(codePoint) /\ t.currentScript # "Latin"
             THEN Len(pushed) ELSE t.lastSafeIndex
        ELSE IF script = "Latin" /\ t.currentScript = "CJK" THEN Len(pushed)
        ELSE t.lastSafeIndex
      current == IF script # "none" THEN script ELSE t.currentScript
      \* codePoints.length = 0; codePoints.push(...codePoints.slice(lastSafeIndex))
      cleared == <<>>
  IN IF len = 0 \/ t.i + len - 1 > Len(t.allBytes)
     THEN [t EXCEPT !.utf8Buffer = Drop(t.allBytes, t.i - 1),
                    !.i = Len(t.allBytes) + 1]
     ELSE IF ~isValidUtf8Sequence(charBytes) THEN [t EXCEPT !.i = t.i + 1]
     ELSE IF codePoint = Null \/ codePoint > 1114111 THEN [t EXCEPT !.i = t.i + 1]
     ELSE IF Len(pushed) - safe > t.maxWindowSize /\ safe > 0
     THEN [t EXCEPT !.output =
                      Append(t.output, Replace(FromCodePoints(Take(pushed, safe)))),
                    !.codePoints = cleared \o Drop(cleared, safe),
                    !.lastSafeIndex = 0,
                    !.currentScript = current,
                    !.i = t.i + len]
     ELSE [t EXCEPT !.codePoints = pushed,
                    !.lastSafeIndex = safe,
                    !.currentScript = current,
                    !.i = t.i + len]

\* The end of a transform call that builds the string with
\* String.fromCharCode, which keeps the low 16 bits of each code point.
EndScanFromCharCode(t) ==
  LET emptied == <<>>
  IN [t EXCEPT !.pc = "open",
               !.lastScript = t.currentScript,
               !.output = IF t.codePoints # <<>>
                          THEN Append(t.output,
                                 Replace([k \in 1..Len(t.codePoints) |->
                                            t.codePoints[k] % 65536]))
                          ELSE t.output,
               !.codePoints = emptied,
               !.utf8Buffer = Utf8Encode(FromCodePoints(emptied)),
               !.allBytes = <<>>,
               !.i = 1,
               !.lastSafeIndex = 0]

\* The end of a transform call: the remaining code points are replaced in
\* and enqueued, and utf8Buffer is set to the bytes of the emptied array.
EndScan(t) ==
  LET emptied == <<>>
  IN [t EXCEPT !.pc = "open",
               !.lastScript = t.currentScript,
               !.output = IF t.codePoints # <<>>
                          THEN Append(t.output, Replace(FromCodePoints(t.codePoints)))
                          ELSE t.output,
               !.codePoints = emptied,
               !.utf8Buffer = Utf8Encode(FromCodePoints(emptied)),
               !.allBytes = <<>>,
               !.i = 1,
               !.lastSafeIndex = 0]

RECURSIVE FlushScan(_, _, _)
\* The loop of flush over the remaining bytes: the code points decoded.
FlushScan(bytes, i, codePoints) ==
  IF i > Len(bytes) THEN codePoints
  ELSE LET len == getUtf8SequenceInfo(bytes[i])
           charBytes == SubSeq(bytes, i, i + len - 1)
       IN IF len = 0 \/ i + len - 1 > Len(bytes) THEN codePoints
          ELSE IF ~isValidUtf8Sequence(charBytes)
          THEN FlushScan(bytes, i + 1, codePoints)
          ELSE FlushScan(bytes, i + len, Append(codePoints, codePointFromUtf8(charBytes)))

\* flush(controller)
FlushText(t) ==
  LET codePoints == FlushScan(t.utf8Buffer, 1, <<>>)
  IN [t EXCEPT !.pc = "closed",
               !.output = IF t.utf8Buffer # <<>> /\ codePoints # <<>>
                          THEN Append(t.output, Replace(FromCodePoints(codePoints)))
                          ELSE t.output]

RECURSIVE RunScan(_)
\* A whole transform call from its first iteration.
RunScan(t) == IF t.i > Len(t.allBytes) THEN EndScan(t) ELSE RunScan(ScanStep(t))

\* start(): the fields of a new TextTransformer with window size w.
NewTextTransformer(w) ==
  [pc |-> "open", buffer |-> <<>>, maxWindowSize |-> w, utf8Buffer |-> <<>>,
   lastScript |-> "none", allBytes |-> <<>>, i |-> 1, codePoints |-> <<>>,
   lastSafeIndex |-> 0, currentScript |-> "none", input |-> <<>>, output |-> <<>>]

\* What the transform emits, concatenated, when text arrives as one chunk.
WholeTextOutput(text, w) ==
  Flatten(FlushText(RunScan(BeginScan(NewTextTransformer(w), text))).output)

\* The code points of the chunks: a, b (the pattern is "ab"), a break point
\* and a three-byte CJK ideograph.
TextAlphabet == {Ord("a"), Ord("b"), Ord(" "), 27979, 120884}
TextChunks == SeqsUpTo(TextAlphabet, MaxInputLen) \ {<<>>}

TtInit ==
  /\ tt \in {NewTextTransformer(w) : w \in 1..MaxWindow}
  /\ rx = Idle /\ jt = Idle /\ dr = Idle /\ mp = Idle /\ rs = Idle /\ calls = Idle /\ u8 = Idle

\* transform(chunk, controller), up to the loop.
TtTransform ==
  /\ tt.pc = "open"
  /\ \E chunk \in TextChunks :
       /\ Len(Flatten(tt.input)) + Len(chunk) <= MaxInputLen
       /\ tt' = BeginScan(tt, FromCodePoints(chunk))
  /\ UNCHANGED <<rx, jt, dr, mp, rs, calls, u8>>

\* One iteration of the loop of transform.
TtScan ==
  /\ tt.pc = "scan"
  /\ tt.i <= Len(tt.allBytes)
  /\ tt' = ScanStep(tt)
  /\ UNCHANGED <<rx, jt, dr, mp, rs, calls, u8>>

\* transform, after the loop.
TtTransformEnd ==
  /\ tt.pc = "scan"
  /\ tt.i > Len(tt.allBytes)
  /\ tt' = EndScan(tt)
  /\ UNCHANGED <<rx, jt, dr, mp, rs, calls, u8>>

\* flush(controller): the source stream has ended.
TtFlush ==
  /\ tt.pc = "open"
  /\ tt' = FlushText(tt)
  /\ UNCHANGED <<rx, jt, dr, mp, rs, calls, u8>>

TtNext == TtTransform \/ TtScan \/ TtTransformEnd \/ TtFlush
SpecText == TtInit /\ [][TtNext]_vars

\* C1: for any text and any way of splitting it into chunks, the
\* concatenation of everything the text transform emits equals what it emits
\* when the whole text arrives as one chunk.
C1_ChunkingEquivalence ==
  tt.pc = "closed" =>
    Flatten(tt.output) = WholeTextOutput(Flatten(tt.input), tt.maxWindowSize)

\* C3: for a text without a pattern occurrence, any chunking and any window
\* size, the concatenation of all emitted windows equals the input text.
C3_RoundTripIdentity ==
  (tt.pc = "closed" /\ ~HasPattern(Flatten(tt.input))) =>
    Flatten(tt.output) = Flatten(tt.input)

(***************************************************************************)
(* JSON text: JSON.stringify of scalars, and the clarinet parser that the  *)
(* JSON stream transform drives (npm:clarinet@0.12.6, imported on line 1): *)
(* its write loop, one character at a time, with the callbacks that        *)
(* createJsonTransformStream.start installs (src/main.ts 266-311).         *)
(*                                                                         *)
(* A scalar is [t |-> "str", s |-> units], [t |-> "num", n |-> integer],   *)
(* [t |-> "bool", b |-> BOOLEAN], [t |-> "null"] or [t |-> "undef"].       *)
(* Numbers are integers: fractions and exponents are outside the model.    *)
(***************************************************************************)

StrV(s) == [t |-> "str", s |-> s]
NumV(n) == [t |-> "num", n |-> n]
BoolV(b) == [t |-> "bool", b |-> b]
NullV == [t |-> "null"]
Undefined == [t |-> "undef"]

HexDigits == Str("0123456789abcdef")
\* The value of one hex digit, upper or lower case.
HexValue(c) ==
  IF IsDigit(c) THEN c - Ord("0")
  ELSE IF IsLower(c) THEN c - Ord("a") + 10
  ELSE c - Ord("A") + 10

RECURSIVE ParseHexFrom(_, _)
\* Number.parseInt(s, 16): the value of the longest prefix of hex digits,
\* acc being the value so far (NaN, which no caller meets, reads as 0).
ParseHexFrom(s, acc) ==
  IF s = <<>> \/ ~IsHexDigit(Head(s)) THEN acc
  ELSE ParseHexFrom(Tail(s), acc * 16 + HexValue(Head(s)))
ParseHex(s) == ParseHexFrom(s, 0)

RECURSIVE ToHex(_)
\* Number.prototype.toString(16)
ToHex(n) ==
  IF n < 16 THEN <<HexDigits[n + 1]>>
  ELSE ToHex(n \div 16) \o <<HexDigits[(n % 16) + 1]>>

RECURSIVE Digits(_)
Digits(n) ==
  IF n < 10 THEN <<Ord("0") + n>> ELSE Digits(n \div 10) \o <<Ord("0") + (n % 10)>>
\* The decimal text of an integer (JSON.stringify of a number).
NumberToString(n) == IF n < 0 THEN <<Ord("-")>> \o Digits(-n) ELSE Digits(n)

RECURSIVE ParseDigits(_, _)
ParseDigits(s, acc) ==
  IF s = <<>> \/ ~IsDigit(Head(s)) THEN acc
  ELSE ParseDigits(Tail(s), acc * 10 + (Head(s) - Ord("0")))
\* parseFloat(numberNode) for an optional minus sign and digits.
ParseNumber(s) ==
  IF s # <<>> /\ Head(s) = Ord("-") THEN -ParseDigits(Tail(s), 0)
  ELSE ParseDigits(s, 0)

\* \uXXXX with four lower-case hex digits.
UnicodeEscape(u) ==
  Str("\\u") \o <<HexDigits[(u \div 4096) + 1], HexDigits[((u \div 256) % 16) + 1],
                  HexDigits[((u \div 16) % 16) + 1], HexDigits[(u % 16) + 1]>>

\* QuoteJSONString for the code unit at index i: ", \ and control characters
\* are escaped, a lone surrogate becomes \udXXX, a surrogate pair stays.
QuoteUnitAt(s, i) ==
  LET u == s[i]
  IN IF IsHighSurrogate(u) /\ i < Len(s) /\ IsLowSurrogate(s[i + 1])
     THEN <<u>>
     ELSE IF IsLowSurrogate(u) /\ i > 1 /\ IsHighSurrogate(s[i - 1])
     THEN <<u>>
     ELSE CASE u = Ord("\"") -> Str("\\\"")
            [] u = Ord("\\") -> Str("\\\\")
            [] u = LF -> Str("\\n")
            [] u = CR -> Str("\\r")
            [] u = TAB -> Str("\\t")
            [] u = 8 -> Str("\\b")
            [] u = 12 -> Str("\\f")
            [] u < 32 /\ u \notin {LF, CR, TAB, 8, 12} -> UnicodeEscape(u)
            [] IsHighSurrogate(u) \/ IsLowSurrogate(u) -> UnicodeEscape(u)
            [] OTHER -> <<u>>

\* QuoteJSONString without the quotes.
QuoteFrom(s) == Flatten([i \in 1..Len(s) |-> QuoteUnitAt(s, i)])
\* JSON.stringify(string)
Quote(s) == Str("\"") \o QuoteFrom(s) \o Str("\"")

\* JSON.stringify(v) of a scalar; undefined yields undefined, which
\* tokens.join('') renders as the empty string.
StringifyScalar(v) ==
  CASE v.t = "str" -> Quote(v.s)
    [] v.t = "num" -> NumberToString(v.n)
    [] v.t = "bool" -> IF v.b THEN Str("true") ELSE Str("false")
    [] v.t = "null" -> Str("null")
    [] OTHER -> <<>>

\* The last token, or the empty string when there is none.
LastToken(tokens) == IF tokens = <<>> THEN <<>> ELSE tokens[Len(tokens)]

\* The callbacks installed by start(): how the callback named event,
\* invoked with data, changes the transformer j (tokens, depth, and the
\* errored output stream).
OnEvent(j, event, data) ==
  CASE event = "onerror" -> [j EXCEPT !.errored = TRUE]
    [] event = "onopenobject" ->
         [j EXCEPT !.depth = j.depth + 1,
                   !.tokens = j.tokens \o <<Str("{"), StringifyScalar(data), Str(":")>>]
    [] event = "onkey" ->
         [j EXCEPT !.tokens = j.tokens \o <<Str(","), StringifyScalar(data), Str(":")>>]
    [] event = "oncloseobject" ->
         [j EXCEPT !.depth = j.depth - 1, !.tokens = Append(j.tokens, Str("}"))]
    [] event = "onopenarray" ->
         [j EXCEPT !.depth = j.depth + 1, !.tokens = Append(j.tokens, Str("["))]
    [] event = "onvalue" ->
         LET comma == /\ Len(j.tokens) > 0
                      /\ LastToken(j.tokens) # Str("[")
                      /\ LastToken(j.tokens) # Str("{")
                      /\ LastToken(j.tokens) # Str(":")
             text == IF data.t = "str" THEN StringifyScalar(StrV(Replace(data.s)))
                     ELSE StringifyScalar(data)
         IN [j EXCEPT !.tokens = (IF comma THEN Append(j.tokens, Str(",")) ELSE j.tokens)
                                 \o <<text>>]
    [] event = "onclosearray" ->
         [j EXCEPT !.depth = j.depth - 1, !.tokens = Append(j.tokens, Str("]"))]
    [] OTHER -> j

\* clarinet.parser(): the fields of a new parser.  events is the sequence
\* of callback invocations the parser has made, in order; thrown tells
\* that a call on the parser threw.
NewParser ==
  [state |-> "BEGIN", stack |-> <<>>, textNode |-> <<>>, hasText |-> FALSE,
   numberNode |-> <<>>, slashed |-> FALSE, unicodeI |-> 0, unicodeS |-> <<>>,
   lit |-> <<>>, litValue |-> NullV, depth |-> 0, error |-> FALSE, closed |-> FALSE,
   thrown |-> FALSE, events |-> <<>>]

\* emit(parser, event, data): the callback of that name is invoked.
Emit(j, event, data) ==
  [j EXCEPT !.events = Append(j.events, [event |-> event, data |-> data])]

\* closeValue(parser, event): the pending text node, if any, is emitted.
CloseValue(j, event) ==
  IF j.hasText
  THEN [Emit(j, event, StrV(j.textNode))
          EXCEPT !.hasText = FALSE, !.textNode = <<>>]
  ELSE j

\* emitNode(parser, event)
EmitNode(j, event) == Emit(CloseValue(j, "onvalue"), event, Undefined)

\* closeNumber(parser)
CloseNumber(j) ==
  IF j.numberNode # <<>>
  THEN [Emit(j, "onvalue", NumV(ParseNumber(j.numberNode)))
          EXCEPT !.numberNode = <<>>]
  ELSE j

\* error(parser, er)
ParserError(j) ==
  Emit([CloseValue(j, "onvalue") EXCEPT !.error = TRUE], "onerror", Undefined)

\* parser.state = parser.stack.pop() || S.VALUE
PopState(j) ==
  IF j.stack = <<>> THEN [j EXCEPT !.state = "VALUE"]
  ELSE [j EXCEPT !.state = j.stack[Len(j.stack)],
                 !.stack = Take(j.stack, Len(j.stack) - 1)]
PushState(j, st) == [j EXCEPT !.stack = Append(j.stack, st)]
SetState(j, st) == [j EXCEPT !.state = st]
DepthBy(j, d) == [j EXCEPT !.depth = j.depth + d]

\* One character of a string body (state STRING of the write loop).
StringChar(j, c) ==
  LET p == j
      j1 == IF p.hasText THEN j ELSE [j EXCEPT !.hasText = TRUE, !.textNode = <<>>]
      text == j1.textNode
  IN IF p.unicodeI > 0 THEN
       IF p.unicodeI = 4
       THEN [j1 EXCEPT !.textNode = Append(text, ParseHex(Append(p.unicodeS, c))),
                       !.unicodeS = Append(p.unicodeS, c),
                       !.unicodeI = 0]
       ELSE [j1 EXCEPT !.unicodeS = Append(p.unicodeS, c),
                       !.unicodeI = p.unicodeI + 1]
     ELSE IF p.slashed THEN
       LET j2 == [j1 EXCEPT !.slashed = FALSE]
       IN CASE c = Ord("n") -> [j2 EXCEPT !.textNode = Append(text, LF)]
            [] c = Ord("r") -> [j2 EXCEPT !.textNode = Append(text, CR)]
            [] c = Ord("t") -> [j2 EXCEPT !.textNode = Append(text, TAB)]
            [] c = Ord("f") -> [j2 EXCEPT !.textNode = Append(text, 12)]
            [] c = Ord("b") -> [j2 EXCEPT !.textNode = Append(text, 8)]
            [] c = Ord("u") -> [j2 EXCEPT !.unicodeI = 1, !.unicodeS = <<>>]
            [] OTHER -> [j2 EXCEPT !.textNode = Append(text, c)]
     ELSE IF c = Ord("\"") THEN PopState(j1)
     ELSE IF c = Ord("\\") THEN [j1 EXCEPT !.slashed = TRUE]
     ELSE [j1 EXCEPT !.textNode = Append(text, c)]

\* The value-start characters shared by states VALUE and OPEN_ARRAY.
ValueStart(j, c) ==
  CASE c = Ord("\"") -> SetState(j, "STRING")
    [] c = Ord("{") -> SetState(j, "OPEN_OBJECT")
    [] c = Ord("[") -> SetState(j, "OPEN_ARRAY")
    [] c = Ord("t") ->
         [j EXCEPT !.state = "LITERAL", !.lit = Str("rue"),
                   !.litValue = BoolV(TRUE)]
    [] c = Ord("f") ->
         [j EXCEPT !.state = "LITERAL", !.lit = Str("alse"),
                   !.litValue = BoolV(FALSE)]
    [] c = Ord("n") ->
         [j EXCEPT !.state = "LITERAL", !.lit = Str("ull"),
                   !.litValue = NullV]
    [] c = Ord("-") -> [j EXCEPT !.numberNode = Append(j.numberNode, c)]
    [] IsDigit(c) ->
         [j EXCEPT !.numberNode = Append(j.numberNode, c),
                   !.state = "NUMBER_DIGIT"]
    [] OTHER -> ParserError(j)

RECURSIVE ParserChar(_, _)
\* One iteration of the write loop: character c in the state of parser j.
\* The states TRUE..TRUE3, FALSE..FALSE4 and NULL..NULL3 are the one state
\* LITERAL with the characters still expected.
ParserChar(j, c) ==
  LET st == j.state
  IN CASE st = "BEGIN" ->
            IF c = Ord("{") THEN SetState(j, "OPEN_OBJECT")
            ELSE IF c = Ord("[") THEN SetState(j, "OPEN_ARRAY")
            ELSE IF ~IsWhitespace(c) THEN ParserError(j)
            ELSE j
       [] st \in {"OPEN_KEY", "OPEN_OBJECT"} ->
            IF IsWhitespace(c) THEN j
            ELSE IF st = "OPEN_OBJECT" /\ c = Ord("}")
            THEN PopState(DepthBy(Emit(DepthBy(Emit(j, "onopenobject", Undefined), 1),
                                       "oncloseobject", Undefined), -1))
            ELSE
              LET j1 == PushState(j, IF st = "OPEN_KEY" THEN "CLOSE_KEY" ELSE "CLOSE_OBJECT")
              IN IF c = Ord("\"") THEN SetState(j1, "STRING") ELSE ParserError(j1)
       [] st \in {"CLOSE_KEY", "CLOSE_OBJECT"} ->
            IF IsWhitespace(c) THEN j
            ELSE IF c = Ord(":") THEN
              SetState(IF st = "CLOSE_OBJECT"
                       THEN DepthBy(CloseValue(PushState(j, "CLOSE_OBJECT"), "onopenobject"), 1)
                       ELSE CloseValue(j, "onkey"),
                       "VALUE")
            ELSE IF c = Ord("}") THEN PopState(DepthBy(EmitNode(j, "oncloseobject"), -1))
            ELSE IF c = Ord(",") THEN
              SetState(CloseValue(IF st = "CLOSE_OBJECT" THEN PushState(j, "CLOSE_OBJECT")
                                  ELSE j, "onvalue"),
                       "OPEN_KEY")
            ELSE ParserError(j)
       [] st \in {"OPEN_ARRAY", "VALUE"} ->
            IF IsWhitespace(c) THEN j
            ELSE IF st = "OPEN_ARRAY" THEN
              LET j1 == SetState(DepthBy(Emit(j, "onopenarray", Undefined), 1), "VALUE")
              IN IF c = Ord("]")
                 THEN PopState(DepthBy(Emit(j1, "onclosearray", Undefined), -1))
                 ELSE ValueStart(PushState(j1, "CLOSE_ARRAY"), c)
            ELSE ValueStart(j, c)
       [] st = "CLOSE_ARRAY" ->
            IF c = Ord(",")
            THEN SetState(CloseValue(PushState(j, "CLOSE_ARRAY"), "onvalue"), "VALUE")
            ELSE IF c = Ord("]") THEN PopState(DepthBy(EmitNode(j, "onclosearray"), -1))
            ELSE IF IsWhitespace(c) THEN j
            ELSE ParserError(j)
       [] st = "STRING" -> StringChar(j, c)
       [] st = "LITERAL" ->
            IF c = Head(j.lit)
            THEN IF Len(j.lit) = 1
                 THEN PopState(Emit(j, "onvalue", j.litValue))
                 ELSE [j EXCEPT !.lit = Tail(j.lit)]
            ELSE ParserError(j)
       [] st = "NUMBER_DIGIT" ->
            IF IsDigit(c)
            THEN [j EXCEPT !.numberNode = Append(j.numberNode, c)]
            ELSE ParserChar(PopState(CloseNumber(j)), c)
       [] OTHER -> ParserError(j)

RECURSIVE ParserChars(_, _)
ParserChars(j, chunk) ==
  IF chunk = <<>> THEN j ELSE ParserChars(ParserChar(j, Head(chunk)), Tail(chunk))

\* end(parser): an unfinished document is an error; the pending text node
\* is emitted and the parser starts over (the constructor runs again, which
\* also clears the stored error).
ParserEnd(j) ==
  LET j1 == IF j.state # "VALUE" \/ j.depth # 0 THEN ParserError(j) ELSE j
      j2 == CloseValue(j1, "onvalue")
  IN [NewParser EXCEPT !.events = j2.events]

\* parser.write(chunk): throws the stored error if there is one (the
\* result then has thrown = TRUE); chunk = null ends the document.
ParserWrite(j, chunk) ==
  IF j.error THEN [j EXCEPT !.thrown = TRUE] ELSE ParserChars(j, chunk)
\* parser.close() is write(null)
ParserClose(j) ==
  IF j.error THEN [j EXCEPT !.thrown = TRUE] ELSE ParserEnd(j)

(***************************************************************************)
(* JSON values as trees, JSON.stringify and JSON.parse.  A value is a      *)
(* scalar, [t |-> "arr", items |-> values] or [t |-> "obj", keys |->       *)
(* strings, vals |-> values] with the members in own-key order.            *)
(***************************************************************************)

ArrV(items) == [t |-> "arr", items |-> items]
ObjV(keys, vals) == [t |-> "obj", keys |-> keys, vals |-> vals]
IsScalar(v) == v.t \in {"str", "num", "bool", "null", "undef"}

RECURSIVE Stringify(_)
RECURSIVE StringifyItems(_, _)
RECURSIVE StringifyMembers(_, _, _, _)
\* The elements of an array from index i, comma-separated; undefined
\* serializes as null inside an array.
StringifyItems(items, i) ==
  IF i > Len(items) THEN <<>>
  ELSE (IF i > 1 THEN Str(",") ELSE <<>>)
       \o (IF items[i].t = "undef" THEN Str("null") ELSE Stringify(items[i]))
       \o StringifyItems(items, i + 1)
\* The members of an object from index i; a member whose value is
\* undefined is left out.  first tells whether none was written yet.
StringifyMembers(keys, vals, i, first) ==
  IF i > Len(keys) THEN <<>>
  ELSE IF vals[i].t = "undef" THEN StringifyMembers(keys, vals, i + 1, first)
  ELSE (IF first THEN <<>> ELSE Str(","))
       \o Quote(keys[i]) \o Str(":") \o Stringify(vals[i])
       \o StringifyMembers(keys, vals, i + 1, FALSE)
\* JSON.stringify(value) without indentation.
Stringify(v) ==
  CASE v.t = "arr" -> Str("[") \o StringifyItems(v.items, 1) \o Str("]")
    [] v.t = "obj" -> Str("{") \o StringifyMembers(v.keys, v.vals, 1, TRUE) \o Str("}")
    [] OTHER -> StringifyScalar(v)

ParseFailure == [ok |-> FALSE, v |-> NullV, i |-> 0]
Parsed(v, i) == [ok |-> TRUE, v |-> v, i |-> i]
CharAt(s, i) == IF i >= 1 /\ i <= Len(s) THEN s[i] ELSE Null

RECURSIVE SkipWs(_, _)
\* The index of the first character at or after i that is not JSON whitespace.
SkipWs(s, i) == IF CharAt(s, i) \in {Ord(" "), TAB, LF, CR} THEN SkipWs(s, i + 1) ELSE i

RECURSIVE ParseStringFrom(_, _, _)
\* The characters of a JSON string from index i (after the opening quote),
\* acc being the decoded units so far.
ParseStringFrom(s, i, acc) ==
  LET c == CharAt(s, i)
      e == CharAt(s, i + 1)
      hex == IF i + 5 <= Len(s) THEN SubSeq(s, i + 2, i + 5) ELSE <<>>
  IN IF c = Null \/ (c >= 0 /\ c < 32) THEN ParseFailure
     ELSE IF c = Ord("\"") THEN Parsed(StrV(acc), i + 1)
     ELSE IF c # Ord("\\") THEN ParseStringFrom(s, i + 1, Append(acc, c))
     ELSE CASE e \in {Ord("\""), Ord("\\"), Ord("/")} -> ParseStringFrom(s, i + 2, Append(acc, e))
            [] e = Ord("b") -> ParseStringFrom(s, i + 2, Append(acc, 8))
            [] e = Ord("f") -> ParseStringFrom(s, i + 2, Append(acc, 12))
            [] e = Ord("n") -> ParseStringFrom(s, i + 2, Append(acc, LF))
            [] e = Ord("r") -> ParseStringFrom(s, i + 2, Append(acc, CR))
            [] e = Ord("t") -> ParseStringFrom(s, i + 2, Append(acc, TAB))
            [] e = Ord("u") /\ Len(hex) = 4 /\ \A k \in 1..4 : IsHexDigit(hex[k]) ->
                 ParseStringFrom(s, i + 6, Append(acc, ParseHex(hex)))
            [] OTHER -> ParseFailure

RECURSIVE DigitRun(_, _)
\* The index after the run of digits that starts at i.
DigitRun(s, i) == IF CharAt(s, i) # Null /\ IsDigit(CharAt(s, i)) THEN DigitRun(s, i + 1) ELSE i

\* A JSON number at index i: an optional minus sign, then 0 or a run of
\* digits without a leading zero.
ParseNumberAt(s, i) ==
  LET d == IF CharAt(s, i) = Ord("-") THEN i + 1 ELSE i
      end == DigitRun(s, d)
  IN IF end = d \/ (CharAt(s, d) = Ord("0") /\ end > d + 1) THEN ParseFailure
     ELSE Parsed(NumV(ParseNumber(SubSeq(s, i, end - 1))), end)

\* obj[key] = val on an ordinary object: an existing key keeps its place.
ObjectSet(obj, key, val) ==
  IF \E k \in 1..Len(obj.keys) : obj.keys[k] = key
  THEN LET k == CHOOSE k \in 1..Len(obj.keys) : obj.keys[k] = key
       IN [obj EXCEPT !.vals[k] = val]
  ELSE [obj EXCEPT !.keys = Append(obj.keys, key), !.vals = Append(obj.vals, val)]

RECURSIVE ParseValue(_, _)
RECURSIVE ParseElements(_, _, _)
RECURSIVE ParseMembers(_, _, _)
RECURSIVE AfterElement(_, _, _)
RECURSIVE AfterKey(_, _, _)
RECURSIVE AfterMember(_, _, _, _)
\* The elements of an array, i being the index of the next element.
ParseElements(s, i, acc) == AfterElement(s, acc, ParseValue(s, SkipWs(s, i)))
\* After the element r: a comma and the next element, or the end.
AfterElement(s, acc, r) ==
  LET j == SkipWs(s, r.i)
  IN IF ~r.ok THEN ParseFailure
     ELSE IF CharAt(s, j) = Ord(",") THEN ParseElements(s, j + 1, Append(acc, r.v))
     ELSE IF CharAt(s, j) = Ord("]") THEN Parsed(ArrV(Append(acc, r.v)), j + 1)
     ELSE ParseFailure
\* The members of an object, i being the index of the next key.
ParseMembers(s, i, acc) ==
  AfterKey(s, acc, IF CharAt(s, SkipWs(s, i)) = Ord("\"")
                   THEN ParseStringFrom(s, SkipWs(s, i) + 1, <<>>)
                   ELSE ParseFailure)
\* After the key: a colon and the value of the member.
AfterKey(s, acc, key) ==
  AfterMember(s, acc, key,
              IF key.ok /\ CharAt(s, SkipWs(s, key.i)) = Ord(":")
              THEN ParseValue(s, SkipWs(s, SkipWs(s, key.i) + 1))
              ELSE ParseFailure)
\* After the member key: r, a comma and the next member, or the end.
AfterMember(s, acc, key, r) ==
  LET j == SkipWs(s, r.i)
  IN IF ~r.ok THEN ParseFailure
     ELSE IF CharAt(s, j) = Ord(",") THEN ParseMembers(s, j + 1, ObjectSet(acc, key.v.s, r.v))
     ELSE IF CharAt(s, j) = Ord("}") THEN Parsed(ObjectSet(acc, key.v.s, r.v), j + 1)
     ELSE ParseFailure
\* The JSON value that starts at index i.
ParseValue(s, i) ==
  LET c == CharAt(s, i)
  IN CASE c = Ord("\"") -> ParseStringFrom(s, i + 1, <<>>)
       [] c = Ord("[") ->
            IF CharAt(s, SkipWs(s, i + 1)) = Ord("]")
            THEN Parsed(ArrV(<<>>), SkipWs(s, i + 1) + 1)
            ELSE ParseElements(s, i + 1, <<>>)
       [] c = Ord("{") ->
            IF CharAt(s, SkipWs(s, i + 1)) = Ord("}")
            THEN Parsed(ObjV(<<>>, <<>>), SkipWs(s, i + 1) + 1)
            ELSE ParseMembers(s, i + 1, ObjV(<<>>, <<>>))
       [] c = Ord("t") /\ OccursAt(s, Str("true"), i) -> Parsed(BoolV(TRUE), i + 4)
       [] c = Ord("f") /\ OccursAt(s, Str("false"), i) -> Parsed(BoolV(FALSE), i + 5)
       [] c = Ord("n") /\ OccursAt(s, Str("null"), i) -> Parsed(NullV, i + 4)
       [] c = Ord("-") \/ (c # Null /\ IsDigit(c)) -> ParseNumberAt(s, i)
       [] OTHER -> ParseFailure

\* JSON.parse(text): ok = FALSE stands for the SyntaxError.
ParsedWhole(text, r) ==
  IF r.ok /\ SkipWs(text, r.i) = Len(text) + 1 THEN [ok |-> TRUE, v |-> r.v]
  ELSE [ok |-> FALSE, v |-> NullV]
JsonParse(text) == ParsedWhole(text, ParseValue(text, SkipWs(text, 1)))

(***************************************************************************)
(* The JSON stream transform (createJsonTransformStream).  A transformer   *)
(* is a record of the JsonTransformer fields, the parser, and the output   *)
(* side of the stream: output is the sequence of enqueued strings, errored *)
(* is set by controller.error.  highSurrogate = <<>> stands for null.      *)
(***************************************************************************)

EscapeState ==
  [Normal |-> 0, Escaped |-> 1, Unicode1 |-> 2, Unicode2 |-> 3, Unicode3 |-> 4,
   Unicode4 |-> 5, HighSurrogate |-> 6, LowSurrogate1 |-> 7, LowSurrogate2 |-> 8,
   LowSurrogate3 |-> 9, LowSurrogate4 |-> 10]

\* start(controller)
NewJsonTransformer ==
  [pc |-> "open", buffer |-> <<>>, tokens |-> <<>>, parser |-> NewParser, depth |-> 0,
   inString |-> FALSE, escapeState |-> EscapeState.Normal, unicodeChars |-> <<>>,
   highSurrogate |-> <<>>, lowSurrogate |-> <<>>,
   errored |-> FALSE, output |-> <<>>]

\* The switch on escapeState for one character of a chunk.
EscapeStep(j, char) ==
  LET es == j.escapeState
      hex == IsHexDigit(char)
  IN CASE es = EscapeState.Normal ->
            IF char = Ord("\\") THEN [j EXCEPT !.escapeState = EscapeState.Escaped]
            ELSE IF char = Ord("\"") /\ j.depth = 0 THEN [j EXCEPT !.inString = ~j.inString]
            ELSE j
       [] es = EscapeState.Escaped ->
            IF char = Ord("u")
            THEN [j EXCEPT !.escapeState = IF j.highSurrogate # <<>>
                                           THEN EscapeState.LowSurrogate1
                                           ELSE EscapeState.Unicode1,
                           !.unicodeChars = <<>>,
                           !.lowSurrogate = <<>>]
            ELSE [j EXCEPT !.highSurrogate = <<>>, !.escapeState = EscapeState.Normal]
       [] es \in {EscapeState.Unicode1, EscapeState.Unicode2, EscapeState.Unicode3} ->
            IF hex
            THEN [j EXCEPT !.unicodeChars = Append(j.unicodeChars, char),
                           !.escapeState = es + 1]
            ELSE [j EXCEPT !.escapeState = EscapeState.Normal, !.highSurrogate = <<>>]
       [] es = EscapeState.Unicode4 ->
            IF hex
            THEN LET chars == Append(j.unicodeChars, char)
                     codePoint == ParseHex(chars)
                 IN IF codePoint >= 55296 /\ codePoint <= 56319
                    THEN [j EXCEPT !.unicodeChars = chars, !.highSurrogate = chars,
                                   !.escapeState = EscapeState.HighSurrogate]
                    ELSE [j EXCEPT !.unicodeChars = chars, !.highSurrogate = <<>>,
                                   !.escapeState = EscapeState.Normal]
            ELSE [j EXCEPT !.escapeState = EscapeState.Normal, !.highSurrogate = <<>>]
       [] es = EscapeState.HighSurrogate ->
            IF char = Ord("\\") THEN [j EXCEPT !.escapeState = EscapeState.Escaped]
            ELSE [j EXCEPT !.escapeState = EscapeState.Normal]
       [] es \in {EscapeState.LowSurrogate1, EscapeState.LowSurrogate2,
                  EscapeState.LowSurrogate3} ->
            IF hex
            THEN [j EXCEPT !.lowSurrogate = Append(j.lowSurrogate, char),
                           !.escapeState = es + 1]
            ELSE [j EXCEPT !.highSurrogate = <<>>, !.escapeState = EscapeState.Normal]
       [] es = EscapeState.LowSurrogate4 ->
            IF hex
            THEN LET low == Append(j.lowSurrogate, char)
                     lowCodePoint == ParseHex(low)
                     highCodePoint == ParseHex(j.highSurrogate)
                     combinedCodePoint ==
                       (highCodePoint - 55296) * 1024 + (lowCodePoint - 56320) + 65536
                 IN IF lowCodePoint >= 56320 /\ lowCodePoint <= 57343
                       /\ j.highSurrogate # <<>>
                    THEN [j EXCEPT !.lowSurrogate = low,
                                   !.unicodeChars = ToHex(combinedCodePoint),
                                   !.escapeState = EscapeState.Normal,
                                   !.highSurrogate = <<>>]
                    ELSE [j EXCEPT !.lowSurrogate = low, !.highSurrogate = <<>>]
            ELSE [j EXCEPT !.highSurrogate = <<>>, !.escapeState = EscapeState.Normal]
       [] OTHER -> j

\* An iteration that stores the pending high surrogate before the fourth
\* digit is appended to unicodeChars.
JsonCharEarlyStore(j, char) ==
  IF j.escapeState = EscapeState.Unicode4
     /\ EscapeStep(j, char).escapeState = EscapeState.HighSurrogate
  THEN [EscapeStep(j, char) EXCEPT !.buffer = Append(j.buffer, char),
                                   !.highSurrogate = j.unicodeChars]
  ELSE [EscapeStep(j, char) EXCEPT !.buffer = Append(j.buffer, char)]

\* An iteration that resets the pending high surrogate when another
\* character than a backslash follows it.
JsonCharResetting(j, char) ==
  IF j.escapeState = EscapeState.HighSurrogate /\ char # Ord("\\")
  THEN [EscapeStep(j, char) EXCEPT !.buffer = Append(j.buffer, char),
                                   !.highSurrogate = <<>>]
  ELSE [EscapeStep(j, char) EXCEPT !.buffer = Append(j.buffer, char)]

\* One iteration of the character loop of transform.
JsonChar(j, char) == [EscapeStep(j, char) EXCEPT !.buffer = Append(j.buffer, char)]

RECURSIVE JsonChars(_, _)
JsonChars(j, chunk) ==
  IF chunk = <<>> THEN j ELSE JsonChars(JsonChar(j, Head(chunk)), Tail(chunk))

\* tokens.join('') is enqueued whatever the state of the stream.
EnqueueTokensAlways(j) ==
  IF j.tokens = <<>> THEN j
  ELSE [j EXCEPT !.output = Append(j.output, Flatten(j.tokens)), !.tokens = <<>>]

\* tokens.join('') is enqueued and tokens cleared; enqueue on an errored
\* stream throws and delivers nothing.
EnqueueTokens(j) ==
  IF j.tokens = <<>> THEN j
  ELSE IF j.errored THEN j
  ELSE [j EXCEPT !.output = Append(j.output, Flatten(j.tokens)), !.tokens = <<>>]

\* The end of transform when the backslash of an unfinished escape is
\* stored without looking at the end of the buffer.
TransformTailUnguarded(j) ==
  IF j.escapeState = EscapeState.Escaped
  THEN [j EXCEPT !.buffer = Append(j.buffer, Ord("\\"))]
  ELSE EnqueueTokens(j)

\* The end of transform: the trailing backslash of an unfinished escape is
\* stored unless the buffer already ends with it.
TransformTail(j) ==
  LET j1 == IF j.escapeState = EscapeState.Escaped /\ ~EndsWith(j.buffer, Str("\\"))
            THEN [j EXCEPT !.buffer = Append(j.buffer, Ord("\\"))]
            ELSE j
  IN IF j1.escapeState = EscapeState.Escaped THEN j1 ELSE EnqueueTokens(j1)

\* A transform that starts every chunk in the Normal state.
JsonTransformFromNormal(j, chunk) ==
  TransformTail(JsonChars([j EXCEPT !.escapeState = EscapeState.Normal], chunk))

\* transform(chunk, controller)
JsonTransform(j, chunk) == TransformTail(JsonChars(j, chunk))

\* The first step of flush: an unanswered high surrogate is put back.
Reinject(j) ==
  IF j.escapeState = EscapeState.HighSurrogate
  THEN [j EXCEPT !.buffer = Str("\\u") \o j.highSurrogate \o j.buffer,
                 !.highSurrogate = <<>>,
                 !.escapeState = EscapeState.Normal]
  ELSE j

RECURSIVE RunCallbacks(_, _)
\* The callbacks for the events of the parser, in the order of the calls.
RunCallbacks(j, events) ==
  IF events = <<>> THEN j
  ELSE RunCallbacks(OnEvent(j, Head(events).event, Head(events).data), Tail(events))

\* A call on the parser made by flush, with the callbacks it invokes.
WithParser(j, parser) ==
  [RunCallbacks(j, parser.events) EXCEPT !.parser = [parser EXCEPT !.events = <<>>]]

\* The end of flush, after parser.close(): a throw errors the stream,
\* otherwise the tokens are enqueued.
FlushClose(j) ==
  IF j.parser.thrown THEN [j EXCEPT !.errored = TRUE] ELSE EnqueueTokens(j)

\* flush after parser.write(buffer): a throw errors the stream,
\* otherwise parser.close() follows.
FlushWrite(j) ==
  IF j.parser.thrown THEN [j EXCEPT !.errored = TRUE]
  ELSE FlushClose(WithParser(j, ParserClose(j.parser)))

\* flush(controller)
JsonFlush(j) ==
  [FlushWrite(IF Len(Reinject(j).buffer) > 0
              THEN WithParser(Reinject(j), ParserWrite(Reinject(j).parser, Reinject(j).buffer))
              ELSE Reinject(j))
     EXCEPT !.pc = "closed"]

RECURSIVE JsonTransformAll(_, _)
JsonTransformAll(j, chunks) ==
  IF chunks = <<>> THEN j
  ELSE JsonTransformAll(JsonTransform(j, Head(chunks)), Tail(chunks))

\* The transformer after the whole stream: every chunk, then flush.
RunJsonStream(chunks) == JsonFlush(JsonTransformAll(NewJsonTransformer, chunks))

(***************************************************************************)
(* SpecJson: one JSON document is delivered to the JSON stream transform   *)
(* in chunks cut at arbitrary offsets, and the stream is then flushed.     *)
(* jt is the transformer with the document (doc), the part not yet         *)
(* delivered (rest) and the offsets at which chunks ended (cuts).          *)
(***************************************************************************)

MaxCuts == 2

SurrogatePair == Str("\\uD834\\uDD1E")
SurrogateDocs ==
  {Str("{\"m\":\"ab_") \o SurrogatePair \o Str("\"}"),
   Str("[\"") \o SurrogatePair \o Str("cab\"]")}

JsonDocs ==
  SurrogateDocs \cup
  {Str("{}"), Str("[]"), Str("[1,[2]]"), Str("[[],\"ab\"]"),
   Str("{\"a\":{\"b\":\"ab\"},\"c\":[]}"),
   Str("[\"ab\",12,true,null,false,-3]"),
   Str("[1, {\"ab\" : \"cab\"}]"),
   Str("{\"k\":\"a\\\"b\\\\\",\"e\":\"\"}"),
   Str("[\"\\uD834\",\"\\n\"]"),
   Str("[\"\\uD834\"]"),
   Str("[\"\\uD834"),
   Str("[\"\\uD834ab\\uDD1E\"]"),
   Str("[\"\\uD834\\u0041\"]"),
   Str("[\"\\u12G4\"]"),
   Str("\"ab\""),
   Str("[\"ab\","),
   Str("{\"a\":tab}")}

JtInit ==
  /\ \E doc \in JsonDocs :
       jt = NewJsonTransformer @@ [doc |-> doc, rest |-> doc, cuts |-> <<>>]
  /\ rx = Idle /\ tt = Idle /\ dr = Idle /\ mp = Idle /\ rs = Idle /\ calls = Idle /\ u8 = Idle

\* A chunk that leaves part of the document for later chunks.
JtTransform ==
  /\ jt.pc = "open"
  /\ Len(jt.cuts) < MaxCuts
  /\ \E n \in 1..(Len(jt.rest) - 1) :
       jt' = [JsonTransform(jt, Take(jt.rest, n))
                EXCEPT !.rest = Drop(jt.rest, n),
                       !.cuts = Append(jt.cuts, Len(jt.doc) - Len(jt.rest) + n)]
  /\ UNCHANGED <<rx, tt, dr, mp, rs, calls, u8>>

\* The chunk that carries the rest of the document.
JtTransformLast ==
  /\ jt.pc = "open"
  /\ jt.rest # <<>>
  /\ jt' = [JsonTransform(jt, jt.rest) EXCEPT !.rest = <<>>]
  /\ UNCHANGED <<rx, tt, dr, mp, rs, calls, u8>>

\* The source is exhausted: flush.
JtFlush ==
  /\ jt.pc = "open"
  /\ jt.rest = <<>>
  /\ jt' = JsonFlush(jt)
  /\ UNCHANGED <<rx, tt, dr, mp, rs, calls, u8>>

JtNext == JtTransform \/ JtTransformLast \/ JtFlush

SpecJson == JtInit /\ [][JtNext]_vars

RECURSIVE ReplaceStrings(_)
\* The value v with the pattern replaced in every string value; keys,
\* structure, order and the other scalars stay.
ReplaceStrings(v) ==
  CASE v.t = "str" -> StrV(Replace(v.s))
    [] v.t = "arr" -> ArrV([k \in 1..Len(v.items) |-> ReplaceStrings(v.items[k])])
    [] v.t = "obj" -> ObjV(v.keys, [k \in 1..Len(v.vals) |-> ReplaceStrings(v.vals[k])])
    [] OTHER -> v

\* C2: for every valid JSON document, in any chunking, the concatenated
\* output after flush is valid JSON and its value is the value of the
\* input with the pattern replaced in every string value and everything
\* else unchanged.
C2_JsonStreamOutput ==
  (jt.pc = "closed" /\ JsonParse(jt.doc).ok) =>
     /\ ~jt.errored
     /\ JsonParse(Flatten(jt.output)).ok
     /\ JsonParse(Flatten(jt.output)).v = ReplaceStrings(JsonParse(jt.doc).v)

\* A chunk ended inside the escape pair of the document.
CutInsidePair ==
  \E k \in 1..Len(jt.cuts), p \in 1..Len(jt.doc) :
    /\ OccursAt(jt.doc, SurrogatePair, p)
    /\ jt.cuts[k] >= p
    /\ jt.cuts[k] < p + Len(SurrogatePair) - 1

\* C4: a document with a string value containing \uD834\uDD1E, split
\* between chunks at any offset, gives the output of the unsplit document,
\* and the string value of the output has the single code point U+1D11E
\* (the units D834 DD1E) with the text around it pattern-replaced.
C4_SurrogatePairIntegrity ==
  (jt.pc = "closed" /\ jt.doc \in SurrogateDocs) =>
     /\ ~jt.errored
     /\ Flatten(jt.output) = Flatten(RunJsonStream(<<jt.doc>>).output)
     /\ JsonParse(Flatten(jt.output)).ok
     /\ JsonParse(Flatten(jt.output)).v = ReplaceStrings(JsonParse(jt.doc).v)
     /\ Includes(Flatten(jt.output), <<55348, 56606>>)
     /\ Includes(Flatten(jt.output), Str("X"))

C4_SplitInsidePair ==
  /\ jt.pc = "closed"
  /\ jt.doc \in SurrogateDocs
  /\ CutInsidePair
  /\ Includes(Flatten(jt.output), <<55348, 56606>>)

(***************************************************************************)
\* The parser after the parser.write(buffer) of a flush of j.
FlushWritten(j) ==
  IF Len(Reinject(j).buffer) > 0
  THEN ParserWrite(Reinject(j).parser, Reinject(j).buffer)
  ELSE Reinject(j).parser
\* The parser p has reported an error to parser.onerror.
HasErrorEvent(p) == \E i \in 1..Len(p.events) : p.events[i].event = "onerror"
\* The parser w, written to by flush, rejects the document: on that write,
\* or on the parser.close() that follows it.
RejectedBy(w) ==
  \/ w.thrown
  \/ HasErrorEvent(w)
  \/ ParserClose(w).thrown
  \/ HasErrorEvent(ParserClose(w))

\* C12: on the streaming JSON path, when the parser rejects the document
\* at flush (on write or on close), the output stream is errored and flush
\* adds no chunk to the output.
C12_RejectedAtFlush ==
  [][(jt.pc = "open" /\ jt'.pc = "closed" /\ RejectedBy(FlushWritten(jt)))
       => (jt'.errored /\ jt'.output = jt.output)]_vars

\* A document cut short is rejected on close, with tokens at hand.
C12_RejectedOnClose ==
  /\ jt.pc = "closed"
  /\ jt.doc = Str("[\"ab\",")
  /\ jt.errored
  /\ jt.tokens # <<>>
  /\ jt.output = <<>>

\* C15: when a high surrogate is pending at the end of the stream (in any
\* escape state), flush hands the parser a text it accepts, and after the
\* flush no high surrogate is pending.
C15_PendingHighSurrogate ==
  [][(jt.pc = "open" /\ jt'.pc = "closed" /\ jt.highSurrogate # <<>>)
       => (jt'.highSurrogate = <<>> /\ ~RejectedBy(FlushWritten(jt)))]_vars

(* deepReplace and unwrapProxy.  Objects have identity: a heap is a        *)
(* sequence of objects, the address of an object is its index, and a       *)
(* value is a scalar or a reference [t |-> "ref", a |-> address].  An      *)
(* object of the heap is [t |-> "arr", items |-> values] or [t |-> "obj",  *)
(* keys |-> strings, vals |-> values, hidden |-> the keys that are not     *)
(* enumerable], with keys in Reflect.ownKeys order.                        *)
(***************************************************************************)

RefV(a) == [t |-> "ref", a |-> a]
ArrObj(items) == [t |-> "arr", items |-> items]
PlainObj(keys, vals) == [t |-> "obj", keys |-> keys, vals |-> vals, hidden |-> {}]
RawKey == Str("__raw__")

\* Reflect.get(value, key) on an object of the heap.
ReflectGet(o, key) ==
  IF o.t = "obj" /\ \E k \in 1..Len(o.keys) : o.keys[k] = key
  THEN o.vals[CHOOSE k \in 1..Len(o.keys) : o.keys[k] = key]
  ELSE Undefined

\* ToBoolean(v)
Truthy(v) ==
  CASE v.t = "str" -> v.s # <<>>
    [] v.t = "num" -> v.n # 0
    [] v.t = "bool" -> v.b
    [] v.t = "ref" -> TRUE
    [] OTHER -> FALSE

\* unwrapProxy(value) with the objects of heap h.
unwrapProxy(h, value) ==
  IF value.t # "ref" THEN value
  ELSE IF Truthy(ReflectGet(h[value.a], RawKey)) THEN ReflectGet(h[value.a], RawKey)
  ELSE value

\* A seen-set branch that returns null in place of the object.
SeenResultNull(value) == NullV

\* What deepReplace returns for an object that is in the seen-set.
SeenResult(value) == value

\* A symbol key: the one Symbol of the model, kept apart from every string
\* key by a code unit that Str never yields.
SymbolKey == <<0>>

\* The positions of the own enumerable string keys of o, in order.
EnumerableKeys(o) ==
  SelectSeq([k \in 1..Len(o.keys) |-> k],
            LAMBDA k : o.keys[k] # SymbolKey /\ o.keys[k] \notin o.hidden)

\* The composite made is written over the object at address a.
AssignInPlace(h, a, made) == [heap |-> [h EXCEPT ![a] = made], v |-> RefV(a)]

\* value.map(...) and const replacedObj = {}: the composite made is a new
\* object of the heap; the object at address a, from which it was made,
\* stays as it is.
Allocate(h, a, made) == [heap |-> Append(h, made), v |-> RefV(Len(h) + 1)]

RECURSIVE deepReplace(_, _, _)
RECURSIVE deepReplaceEach(_, _, _, _)
RECURSIVE AfterFirst(_, _, _)
\* The result r of calls that have logged n more lines than it counts.
WithWarned(r, n) == [r EXCEPT !.warned = r.warned + n]
\* The result of rewriting a composite: the object made is put into the
\* heap left by the calls r for its members.
Rewritten(r, placed) ==
  [heap |-> placed.heap, seen |-> r.seen, v |-> placed.v, warned |-> r.warned]
\* The calls deepReplace(unwrapProxy(v), seen, ...) for the values vals in
\* order, acc being the results so far.
deepReplaceEach(h, seen, vals, acc) ==
  IF vals = <<>> THEN [heap |-> h, seen |-> seen, vals |-> acc, warned |-> 0]
  ELSE AfterFirst(deepReplace(h, seen, unwrapProxy(h, Head(vals))), vals, acc)
\* The calls for the values after the first, r being what the first call
\* returned; the lines logged by console.warn add up.
AfterFirst(r, vals, acc) ==
  WithWarned(deepReplaceEach(r.heap, r.seen, Tail(vals), Append(acc, r.v)), r.warned)
\* deepReplace(value, seen): the heap with the objects it has created, the
\* seen-set after the call, the value returned, and the number of lines
\* logged with console.warn.
deepReplace(h, seen0, value0) ==
  LET value == unwrapProxy(h, value0)
  IN IF value.t = "str"
     THEN [heap |-> h, seen |-> seen0, v |-> StrV(Replace(value.s)), warned |-> 0]
     ELSE IF value.t # "ref" THEN [heap |-> h, seen |-> seen0, v |-> value, warned |-> 0]
     ELSE IF value.a \in seen0
     THEN [heap |-> h, seen |-> seen0, v |-> SeenResult(value), warned |-> 1]
     ELSE
       LET o == h[value.a]
           ks == EnumerableKeys(o)
           r == deepReplaceEach(h, seen0 \cup {value.a},
                                IF o.t = "arr" THEN o.items
                                ELSE [k \in 1..Len(ks) |-> o.vals[ks[k]]],
                                <<>>)
           made == IF o.t = "arr" THEN ArrObj(r.vals)
                   ELSE PlainObj([k \in 1..Len(ks) |-> o.keys[ks[k]]], r.vals)
       IN Rewritten(r, Allocate(r.heap, value.a, made))

RECURSIVE Load(_, _)
RECURSIVE LoadEach(_, _, _)
LoadEach(h, vals, acc) ==
  IF vals = <<>> THEN [heap |-> h, vals |-> acc]
  ELSE LET r == Load(h, Head(vals))
       IN LoadEach(r.heap, Tail(vals), Append(acc, r.v))
\* The objects of a parsed JSON value are created in heap h.
Load(h, v) ==
  IF v.t \notin {"arr", "obj"} THEN [heap |-> h, v |-> v]
  ELSE LET r == LoadEach(h, IF v.t = "arr" THEN v.items ELSE v.vals, <<>>)
           made == IF v.t = "arr" THEN ArrObj(r.vals) ELSE PlainObj(v.keys, r.vals)
       IN [heap |-> Append(r.heap, made), v |-> RefV(Len(r.heap) + 1)]

RECURSIVE Snapshot(_, _)
\* The tree of an acyclic value of heap h, as JSON.stringify walks it: the
\* own enumerable members of an object, the elements of an array.
Snapshot(h, v) ==
  IF v.t # "ref" THEN v
  ELSE LET o == h[v.a]
           ks == EnumerableKeys(o)
       IN IF o.t = "arr" THEN ArrV([k \in 1..Len(o.items) |-> Snapshot(h, o.items[k])])
          ELSE ObjV([k \in 1..Len(ks) |-> o.keys[ks[k]]],
                    [k \in 1..Len(ks) |-> Snapshot(h, o.vals[ks[k]])])

(***************************************************************************)
(* SpecDeep: deepReplace is called with a fresh seen-set on a value: a     *)
(* parsed JSON value (a tree loaded into an empty heap) or a graph of      *)
(* objects that share or reference each other.                             *)
(***************************************************************************)

MaxWidth == 2

DeepLeaves == {StrV(Str("ab")), NumV(1), NullV}
DeepKeySeqs ==
  {<<>>, <<Str("a")>>, <<RawKey>>, <<Str("a"), RawKey>>, <<RawKey, Str("a")>>}

\* Arrays of up to MaxWidth leaves and objects over the key sequences.
FlatValues ==
  DeepLeaves
  \cup {ArrV(items) : items \in SeqsUpTo(DeepLeaves, MaxWidth)}
  \cup UNION {{ObjV(ks, vs) : vs \in [1..Len(ks) -> DeepLeaves]} : ks \in DeepKeySeqs}

\* The parsed JSON values of the model: the flat values, alone and as the
\* single member of an array or of an object.
DeepTrees ==
  FlatValues
  \cup {ArrV(<<v>>) : v \in FlatValues}
  \cup {ObjV(<<Str("a")>>, <<v>>) : v \in FlatValues}
  \cup {ObjV(<<RawKey>>, <<v>>) : v \in FlatValues}

\* Graphs: a.self = a; the same with a string member; an array that holds
\* itself; two objects that reference each other; an object shared by two
\* members; a root that is reached again through an array; an object with
\* a member that is not enumerable.
DeepGraphs ==
  {[heap |-> <<PlainObj(<<Str("self")>>, <<RefV(1)>>)>>, root |-> RefV(1)],
   [heap |-> <<PlainObj(<<Str("name"), Str("self")>>, <<StrV(Str("ab")), RefV(1)>>)>>,
    root |-> RefV(1)],
   [heap |-> <<ArrObj(<<StrV(Str("ab")), RefV(1)>>)>>, root |-> RefV(1)],
   [heap |-> <<PlainObj(<<Str("child")>>, <<RefV(2)>>),
               PlainObj(<<Str("parent"), Str("s")>>, <<RefV(1), StrV(Str("ab"))>>)>>,
    root |-> RefV(1)],
   [heap |-> <<PlainObj(<<Str("x"), Str("y")>>, <<RefV(2), RefV(2)>>),
               PlainObj(<<Str("t")>>, <<StrV(Str("ab"))>>)>>,
    root |-> RefV(1)],
   [heap |-> <<PlainObj(<<Str("self"), Str("list")>>, <<RefV(1), RefV(2)>>),
               ArrObj(<<RefV(1), StrV(Str("ab"))>>)>>,
    root |-> RefV(1)],
   [heap |-> <<[PlainObj(<<Str("v"), Str("h")>>, <<StrV(Str("ab")), StrV(Str("ab"))>>)
                  EXCEPT !.hidden = {Str("h")}]>>,
    root |-> RefV(1)],
   [heap |-> <<PlainObj(<<Str("v"), SymbolKey>>, <<StrV(Str("ab")), StrV(Str("ab"))>>)>>,
    root |-> RefV(1)]}

NoResult == [heap |-> <<>>, seen |-> {}, v |-> Undefined, warned |-> 0]

DrInit ==
  /\ \/ \E tree \in DeepTrees :
          dr = [pc |-> "ready", isTree |-> TRUE, tree |-> tree,
                heap |-> Load(<<>>, tree).heap, root |-> Load(<<>>, tree).v,
                result |-> NoResult]
     \/ \E g \in DeepGraphs :
          dr = [pc |-> "ready", isTree |-> FALSE, tree |-> Undefined,
                heap |-> g.heap, root |-> g.root, result |-> NoResult]
  /\ rx = Idle /\ tt = Idle /\ jt = Idle /\ mp = Idle /\ rs = Idle /\ calls = Idle /\ u8 = Idle

\* deepReplace(value, new WeakSet())
DrCall ==
  /\ dr.pc = "ready"
  /\ dr' = [dr EXCEPT !.pc = "done", !.result = deepReplace(dr.heap, {}, dr.root)]
  /\ UNCHANGED <<rx, tt, jt, mp, rs, calls, u8>>

DrNext == DrCall

SpecDeep == DrInit /\ [][DrNext]_vars

\* C7: deepReplace on a parsed JSON value returns a value of the same
\* shape: arrays keep length and order, objects keep their keys in order
\* with the replaced value under the same key, string leaves are
\* pattern-replaced, numbers, booleans and null are unchanged, whatever
\* the key names are.
C7_ShapePreserved ==
  (dr.pc = "done" /\ dr.isTree) =>
     Snapshot(dr.result.heap, dr.result.v) = ReplaceStrings(dr.tree)

\* The root is an object whose property self references the root itself.
SelfCycle ==
  /\ ~dr.isTree
  /\ dr.heap[dr.root.a].t = "obj"
  /\ ReflectGet(dr.heap[dr.root.a], Str("self")) = dr.root

\* C8: deepReplace with a fresh seen-set on a graph with the cycle
\* a.self = a returns (a new object, nothing raised), and the property
\* self of the result references a, which is as it was.
C8_CycleSafety ==
  (dr.pc = "done" /\ SelfCycle) =>
     /\ dr.result.v.t = "ref"
     /\ dr.result.v.a > Len(dr.heap)
     /\ dr.result.v.a <= Len(dr.result.heap)
     /\ ReflectGet(dr.result.heap[dr.result.v.a], Str("self")) = dr.root
     /\ SubSeq(dr.result.heap, 1, Len(dr.heap)) = dr.heap

C8_CycleReturned ==
  /\ dr.pc = "done"
  /\ SelfCycle
  /\ dr.root.a \in dr.result.seen
  /\ ReflectGet(dr.result.heap[dr.result.v.a], Str("self")) = dr.root

(***************************************************************************)
\* The composite a member value v of an object of heap h stands for when
\* deepReplace is called on it: unwrapped by the caller and by the call.
Reached(h, v) == unwrapProxy(h, unwrapProxy(h, v))

\* The values deepReplace visits below a composite o: the elements of an
\* array, the own enumerable string-keyed members of an object.
Children(o) ==
  IF o.t = "arr" THEN o.items
  ELSE [k \in 1..Len(EnumerableKeys(o)) |-> o.vals[EnumerableKeys(o)[k]]]

\* The members of composite o, enumerable or not.
Members(o) == IF o.t = "arr" THEN o.items ELSE o.vals

\* The number of composites among the values visited below the object at a.
CompositeChildren(h, a) ==
  Cardinality({k \in 1..Len(Children(h[a])) : Reached(h, Children(h[a])[k]).t = "ref"})

RECURSIVE CompositeVisits(_, _)
\* The number of calls of deepReplace on a composite made from the objects
\* at the addresses as.
CompositeVisits(h, as) ==
  IF as = {} THEN 0
  ELSE LET a == CHOOSE x \in as : TRUE
       IN CompositeChildren(h, a) + CompositeVisits(h, as \ {a})

RECURSIVE ReachableFrom(_, _)
\* The addresses of the composites deepReplace comes to from those in as.
ReachableFrom(h, as) ==
  LET next == as \cup UNION {{Reached(h, Children(h[a])[k]).a :
                                 k \in {j \in 1..Len(Children(h[a])) :
                                          Reached(h, Children(h[a])[j]).t = "ref"}} :
                              a \in as}
  IN IF next = as THEN as ELSE ReachableFrom(h, next)

\* The members of the objects deepReplace has created that are objects of
\* the input.
KeptOriginals(res, n0) ==
  UNION {{<<n, k>> : k \in {j \in 1..Len(Members(res.heap[n])) :
                               /\ Members(res.heap[n])[j].t = "ref"
                               /\ Members(res.heap[n])[j].a <= n0}} :
           n \in (n0 + 1)..Len(res.heap)}

\* C32: in one top-level call of deepReplace the seen-set only grows: it ends
\* as the set of all composites the call came to, each of them rewritten
\* once; every further visit of a composite, through a cycle or through a
\* shared reference, returns the original object, its strings not replaced,
\* and logs one line instead of failing.
C32_SeenSetGrows ==
  (dr.pc = "done" /\ unwrapProxy(dr.heap, dr.root).t = "ref") =>
    LET res == dr.result
        n0 == Len(dr.heap)
        kept == KeptOriginals(res, n0)
    IN /\ res.seen = ReachableFrom(dr.heap, {unwrapProxy(dr.heap, dr.root).a})
       /\ Len(res.heap) - n0 = Cardinality(res.seen)
       /\ res.warned = 1 + CompositeVisits(dr.heap, res.seen) - Cardinality(res.seen)
       /\ Cardinality(kept) = res.warned
       /\ \A p \in kept : Members(res.heap[p[1]])[p[2]].a \in res.seen
       /\ SubSeq(res.heap, 1, n0) = dr.heap

\* An object shared by two members of an acyclic value: the first visit
\* rewrites it, the second returns the original with its string unreplaced.
C32_SharedReturnedUnreplaced ==
  /\ dr.pc = "done"
  /\ ~dr.isTree
  /\ Len(dr.heap) = 2
  /\ dr.heap[1].t = "obj" /\ dr.heap[1].vals = <<RefV(2), RefV(2)>>
  /\ dr.result.warned = 1
  /\ Snapshot(dr.result.heap, dr.result.v)
       = ObjV(dr.heap[1].keys, <<ObjV(dr.heap[2].keys, <<StrV(Replace(dr.heap[2].vals[1].s))>>),
                                 ObjV(dr.heap[2].keys, dr.heap[2].vals)>>)
  /\ Replace(dr.heap[2].vals[1].s) # dr.heap[2].vals[1].s

\* C33: deepReplace visits only the own enumerable string-keyed properties
\* of an object; every non-enumerable or symbol-keyed property of the input
\* object is present in the returned object with its original value.
C33_UnvisitedPassedThrough ==
  (dr.pc = "done" /\ dr.root.t = "ref" /\ dr.heap[dr.root.a].t = "obj"
     /\ dr.result.v.t = "ref" /\ dr.result.v.a > Len(dr.heap)) =>
    LET o == dr.heap[dr.root.a]
        made == dr.result.heap[dr.result.v.a]
    IN \A k \in 1..Len(o.keys) :
         (o.keys[k] = SymbolKey \/ o.keys[k] \in o.hidden) =>
           /\ \E j \in 1..Len(made.keys) : made.keys[j] = o.keys[k]
           /\ ReflectGet(made, o.keys[k]) = o.vals[k]

\* C40: deepReplace does not mutate its input: after the call every object
\* and array of the input has the properties, elements and string values it
\* had before, and every composite the call has rewritten is an object or
\* array the call has created; what the result keeps of the input are the
\* composites returned unrewritten.
C40_InputNotMutated ==
  dr.pc = "done" =>
    LET res == dr.result
        n0 == Len(dr.heap)
    IN /\ Len(res.heap) >= n0
       /\ \A a \in 1..n0 : res.heap[a] = dr.heap[a]
       /\ unwrapProxy(dr.heap, dr.root).t = "ref" =>
            (res.v.t = "ref" /\ res.v.a \in (n0 + 1)..Len(res.heap))
       /\ \A n \in (n0 + 1)..Len(res.heap) :
            \A k \in 1..Len(Members(res.heap[n])) :
              Members(res.heap[n])[k].t = "ref" =>
                \/ Members(res.heap[n])[k].a \in (n0 + 1)..Len(res.heap)
                \/ Members(res.heap[n])[k].a \in res.seen

\* A parsed value of nested composites has been rewritten: the result
\* differs from the input, which still reads as it did.
C40_NestedRewritten ==
  /\ dr.pc = "done"
  /\ dr.isTree
  /\ Len(dr.heap) >= 2
  /\ Snapshot(dr.result.heap, dr.result.v) # dr.tree
  /\ Snapshot(dr.result.heap, dr.root) = dr.tree
  /\ Len(dr.result.heap) = 2 * Len(dr.heap)

(* Headers.  A header list is a sequence of [name, value] with lower-case  *)
(* names, as the runtime (Deno) keeps it: iteration sorts by name and      *)
(* combines the values of one name with ", ", except set-cookie, whose     *)
(* entries are given one by one.                                           *)
(***************************************************************************)

Header(name, value) == [name |-> name, value |-> value]
SetCookie == Str("set-cookie")

RECURSIVE StrLess(_, _)
\* a < b on strings (code units, left to right).
StrLess(a, b) ==
  IF b = <<>> THEN FALSE
  ELSE IF a = <<>> THEN TRUE
  ELSE IF Head(a) # Head(b) THEN Head(a) < Head(b)
  ELSE StrLess(Tail(a), Tail(b))

HeadersHas(list, name) == \E i \in 1..Len(list) : list[i].name = name

\* headers.get(name): the values of that name joined with ", "; the empty
\* string stands for null where the caller writes get(name) || ''.
HeadersGet(list, name) ==
  Join([i \in 1..Len(SelectSeq(list, LAMBDA h : h.name = name)) |->
          SelectSeq(list, LAMBDA h : h.name = name)[i].value], Str(", "))

\* headers.delete(name)
HeadersDelete(list, name) == SelectSeq(list, LAMBDA h : h.name # name)

\* headers.set(name, value): the first header of that name takes the
\* value, the others are removed; a new name is appended.
HeadersSet(list, name, value) ==
  IF ~HeadersHas(list, name) THEN Append(list, Header(name, value))
  ELSE LET first == CHOOSE i \in 1..Len(list) :
                      list[i].name = name /\ \A k \in 1..(i - 1) : list[k].name # name
       IN SelectSeq([i \in 1..Len(list) |->
                       IF i = first THEN Header(name, value)
                       ELSE IF list[i].name = name THEN Header(<<>>, <<>>)
                       ELSE list[i]],
                    LAMBDA h : h.name # <<>>)

RECURSIVE CombineFrom(_, _)
\* The entries of the list with the values of one name combined
\* (set-cookie excepted), in the order of first appearance.
CombineFrom(list, acc) ==
  IF list = <<>> THEN acc
  ELSE LET h == Head(list)
       IN IF h.name = SetCookie \/ ~HeadersHas(acc, h.name)
          THEN CombineFrom(Tail(list), Append(acc, h))
          ELSE CombineFrom(Tail(list),
                 [i \in 1..Len(acc) |->
                    IF acc[i].name = h.name
                    THEN Header(h.name, acc[i].value \o Str(", ") \o h.value)
                    ELSE acc[i]])

RECURSIVE SortByName(_)
\* A stable sort of the entries by name.
SortByName(list) ==
  IF list = <<>> THEN <<>>
  ELSE LET rest == SortByName(Tail(list))
           h == Head(list)
           before == SelectSeq(rest, LAMBDA x : StrLess(x.name, h.name))
           after == SelectSeq(rest, LAMBDA x : ~StrLess(x.name, h.name))
       IN before \o <<h>> \o after

\* The pairs that iteration (forEach, entries) goes over.
IterableHeaders(list) == SortByName(CombineFrom(list, <<>>))

\* new Headers(init) with a Headers object: every pair is appended.
NewHeaders(list) == IterableHeaders(list)

RECURSIVE ForEachSet(_, _)
\* updatedHeaders.forEach((value, key) => updatedHeaders.set(key,
\* value.replace(regex, replacement))) over the pairs taken when forEach
\* starts.
ForEachSet(list, pairs) ==
  IF pairs = <<>> THEN list
  ELSE ForEachSet(HeadersSet(list, Head(pairs).name, Replace(Head(pairs).value)),
                  Tail(pairs))

\* "Overwrite ALL headers"
UpdateHeaders(list) == ForEachSet(NewHeaders(list), IterableHeaders(NewHeaders(list)))

(***************************************************************************)
(* The decoder: new TextDecoder('utf-8', {fatal: true}).decode(bytes).     *)
(***************************************************************************)

\* The code point of the sequence that starts at index i, Null when the
\* sequence is cut short or malformed.
SequenceAt(bytes, i) ==
  LET n == getUtf8SequenceInfo(bytes[i])
  IN IF n >= 1 /\ i + n - 1 <= Len(bytes)
     THEN codePointFromUtf8(SubSeq(bytes, i, i + n - 1))
     ELSE Null

\* A byte that starts no sequence belongs to the sequence of a lead byte
\* at most three bytes before it.
CoveredAt(bytes, i) ==
  \E k \in 1..3 : i - k >= 1 /\ getUtf8SequenceInfo(bytes[i - k]) >= k + 1

\* The UTF-16 units of the bytes after the units acc; ok = FALSE stands for
\* the TypeError of a fatal decoder.
DecodeFrom(bytes, acc) ==
  IF \A i \in 1..Len(bytes) :
       IF getUtf8SequenceInfo(bytes[i]) = 0 THEN CoveredAt(bytes, i)
       ELSE SequenceAt(bytes, i) # Null
  THEN [ok |-> TRUE,
        text |-> acc \o Flatten([i \in 1..Len(bytes) |->
                   IF getUtf8SequenceInfo(bytes[i]) = 0 THEN <<>>
                   ELSE FromCodePoint(SequenceAt(bytes, i))])]
  ELSE [ok |-> FALSE, text |-> <<>>]

\* A leading byte order mark is dropped (ignoreBOM is false).
Utf8Decode(bytes) ==
  IF Len(bytes) >= 3 /\ Take(bytes, 3) = <<239, 187, 191>>
  THEN DecodeFrom(Drop(bytes, 3), <<>>)
  ELSE DecodeFrom(bytes, <<>>)

(***************************************************************************)
\* A window re-decodes independently: the bytes the encoder makes of it are
\* decoded to the same string, which fails for half a surrogate pair.
RedecodesAlone(window) ==
  LET decoded == Utf8Decode(Utf8Encode(window))
  IN decoded.ok /\ decoded.text = window

\* C16: for every maximum window size, every window the text transform has
\* emitted consists of whole code points: it re-decodes independently as
\* valid UTF-8, no boundary falls inside a multi-byte sequence.
C16_WholeCodePointWindows ==
  \A k \in 1..Len(tt.output) : RedecodesAlone(tt.output[k])

\* A window forced out in the middle of a chunk of multi-byte text: the
\* four-byte U+1D834 and a space, cut off before two more code points.
C16_ForcedWindow ==
  /\ tt.pc = "scan"
  /\ Len(tt.input) = 1
  /\ tt.maxWindowSize = 1
  /\ tt.output = <<FromCodePoints(<<120884, Ord(" ")>>)>>

\* C17: while reacting to one input chunk the text transform enqueues at
\* most one output unit, so that before the final flush it has enqueued no
\* more units than it has consumed chunks.
C17_OneUnitPerChunk ==
  tt.pc \in {"open", "scan"} => Len(tt.output) <= Len(tt.input)

\* The part of the document that the chunks consumed so far have delivered.
Delivered(j) == Take(j.doc, Len(j.doc) - Len(j.rest))

RECURSIVE InStringFrom(_, _, _, _)
\* Whether text ends inside a string literal: the scan from index i, inside
\* telling whether a string is open and escaped whether a backslash precedes.
InStringFrom(text, i, inside, escaped) ==
  IF i > Len(text) THEN inside
  ELSE IF escaped THEN InStringFrom(text, i + 1, inside, FALSE)
  ELSE IF inside /\ text[i] = Ord("\\") THEN InStringFrom(text, i + 1, inside, TRUE)
  ELSE IF text[i] = Ord("\"") THEN InStringFrom(text, i + 1, ~inside, FALSE)
  ELSE InStringFrom(text, i + 1, inside, FALSE)

\* The chunks consumed so far end where an object or an array is closed, or
\* they deliver a whole well-formed document.
CompletesStructure(j) ==
  /\ Delivered(j) # <<>>
  /\ \/ /\ Delivered(j)[Len(Delivered(j))] \in {Ord("]"), Ord("}")}
        /\ ~InStringFrom(Delivered(j), 1, FALSE, FALSE)
     \/ j.rest = <<>> /\ JsonParse(j.doc).ok

\* C18: once a chunk that completes an object, an array or the top-level
\* value has been consumed, and the chunk does not end in the Escaped
\* state, the transform has enqueued output before the next chunk or the
\* flush, and it does not hold the text of the whole document.
C18_IncrementalEmission ==
  (jt.pc = "open" /\ CompletesStructure(jt)
     /\ jt.escapeState # EscapeState.Escaped) =>
    (jt.output # <<>> /\ jt.buffer # jt.doc)

\* The code point of the sequence at the scan position.
ScannedCodePoint(t) ==
  codePointFromUtf8(SubSeq(t.allBytes, t.i,
                           t.i + getUtf8SequenceInfo(t.allBytes[t.i]) - 1))

\* C23: an iteration of the scan that forces a window out emits the
\* pending code points before the safe index, pattern-replaced, keeps the
\* code points from the safe index onward pending, and sets the safe index
\* to zero.
C23_ForcedWindowEmission ==
  [][(tt.pc = "scan" /\ tt'.pc = "scan" /\ Len(tt'.output) = Len(tt.output) + 1)
       => /\ tt'.output[Len(tt'.output)] =
               Replace(FromCodePoints(Take(tt.codePoints, tt.lastSafeIndex)))
          /\ tt'.codePoints =
               Drop(Append(tt.codePoints, ScannedCodePoint(tt)), tt.lastSafeIndex)
          /\ tt'.lastSafeIndex = 0]_vars

\* The token buffer at the end of a flush of j, before it is enqueued: the
\* callbacks of parser.write(buffer) and of parser.close() have run.
AfterFlushWrite(j) == WithParser(Reinject(j), FlushWritten(j))
TokensAtFlush(j) ==
  WithParser(AfterFlushWrite(j), ParserClose(AfterFlushWrite(j).parser)).tokens

\* A value, a key or an opening bracket follows the end of a value with no
\* comma between them.
MissingComma(tokens) ==
  \E k \in 2..Len(tokens) :
    /\ tokens[k - 1] \notin {Str("["), Str("{"), Str(":"), Str(",")}
    /\ tokens[k] \notin {Str("]"), Str("}"), Str(":"), Str(",")}

\* A comma stands before the first element of a container.
CommaBeforeFirst(tokens) ==
  \E k \in 2..Len(tokens) :
    tokens[k] = Str(",") /\ tokens[k - 1] \in {Str("["), Str("{"), Str(":")}

\* C24: in the token buffer a comma stands before every value that is not
\* the first element of its container, whatever the kind of the value, and
\* never before the first element.
C24_CommaInsertion ==
  [][(jt.pc = "open" /\ jt'.pc = "closed")
       => (~MissingComma(TokensAtFlush(jt)) /\ ~CommaBeforeFirst(TokensAtFlush(jt)))]_vars

\* C27: in every state of the JSON stream transform, escapeState =
\* HighSurrogate implies that the pending high surrogate is set, consists
\* of exactly four hex digits and has a value in [0xD800,0xDBFF].
C27_HighSurrogatePending ==
  (jt.pc # "idle" /\ jt.escapeState = EscapeState.HighSurrogate) =>
    /\ Len(jt.highSurrogate) = 4
    /\ \A k \in 1..Len(jt.highSurrogate) : IsHexDigit(jt.highSurrogate[k])
    /\ ParseHex(jt.highSurrogate) \in 55296..56319

\* A chunk has ended right after the escape of a high surrogate.
C27_AfterHighEscape ==
  /\ jt.pc = "open"
  /\ jt.escapeState = EscapeState.HighSurrogate
  /\ jt.highSurrogate = Str("D834")
  /\ Delivered(jt) = Str("[\"\\uD834")
  /\ jt.rest # <<>>

\* The chunk that the step consumes.
ChunkConsumed == Take(jt.rest, Len(jt.rest) - Len(jt'.rest))

\* The states in which the digits of an escape are captured.
CaptureStates ==
  {EscapeState.Unicode1, EscapeState.Unicode2, EscapeState.Unicode3,
   EscapeState.Unicode4, EscapeState.LowSurrogate1, EscapeState.LowSurrogate2,
   EscapeState.LowSurrogate3, EscapeState.LowSurrogate4}

\* The character makes the escape being captured invalid: it is no hex
\* digit, or it completes a low-surrogate capture outside [0xDC00,0xDFFF].
InvalidEscapeAt(j, char) ==
  \/ j.escapeState \in CaptureStates /\ ~IsHexDigit(char)
  \/ /\ j.escapeState = EscapeState.LowSurrogate4
     /\ IsHexDigit(char)
     /\ ParseHex(Append(j.lowSurrogate, char)) \notin 56320..57343

\* C28: after a character at which the escape state machine detects an
\* invalid escape, escapeState is Normal and no high surrogate is pending.
C28_InvalidEscapeResets ==
  [][(jt.pc = "open" /\ jt'.pc = "open" /\ Len(ChunkConsumed) = 1
        /\ InvalidEscapeAt(jt, ChunkConsumed[1]))
       => (jt'.escapeState = EscapeState.Normal /\ jt'.highSurrogate = <<>>)]_vars

\* The chunk holds no backslash.
Ordinary(chunk) == \A k \in 1..Len(chunk) : chunk[k] # Ord("\\")

\* C29: with a high surrogate pending, in state HighSurrogate or in Normal
\* after it, a chunk of characters other than a backslash leaves the
\* machine in Normal with the high surrogate still pending, and a chunk
\* that goes on with the start of a \u escape leaves it in LowSurrogate1.
C29_PendingSurvives ==
  [][(jt.pc = "open" /\ jt'.pc = "open" /\ jt.highSurrogate # <<>>
        /\ jt.escapeState \in {EscapeState.HighSurrogate, EscapeState.Normal}
        /\ Len(ChunkConsumed) >= 1)
       => /\ Ordinary(ChunkConsumed) =>
               /\ jt'.escapeState = EscapeState.Normal
               /\ jt'.highSurrogate = jt.highSurrogate
          /\ (/\ Len(ChunkConsumed) >= 3
              /\ Ordinary(Take(ChunkConsumed, Len(ChunkConsumed) - 2))
              /\ Drop(ChunkConsumed, Len(ChunkConsumed) - 2) = Str("\\u")) =>
               /\ jt'.escapeState = EscapeState.LowSurrogate1
               /\ jt'.highSurrogate = jt.highSurrogate]_vars

\* The low-surrogate capture has started two ordinary characters after the
\* escape of the high surrogate, which arrived in an earlier chunk.
C29_LowCaptureStarted ==
  /\ jt.pc = "open"
  /\ jt.cuts = <<8, 12>>
  /\ Delivered(jt) = Str("[\"\\uD834ab\\u")
  /\ jt.escapeState = EscapeState.LowSurrogate1
  /\ jt.highSurrogate = Str("D834")

\* The transformers j and k are in the same escape state with the same
\* pending high surrogate.
SameEscapeState(j, k) ==
  j.escapeState = k.escapeState /\ j.highSurrogate = k.highSurrogate

\* C30: after the chunks consumed so far, escapeState and the pending high
\* surrogate are those reached when their concatenation is consumed as one
\* chunk, however the text was split.
C30_ChunkBoundaryIndependence ==
  (jt.pc = "open" /\ Delivered(jt) # <<>>) =>
    SameEscapeState(jt, JsonTransform(NewJsonTransformer, Delivered(jt)))

\* A surrogate pair delivered in three chunks, cut right after the
\* backslash of the first escape and between the two escapes.
C30_SplitThreeWays ==
  /\ jt.pc = "open"
  /\ jt.doc = Str("[\"") \o SurrogatePair \o Str("cab\"]")
  /\ jt.cuts = <<3, 8>>
  /\ jt.rest = <<>>
  /\ jt.escapeState = EscapeState.Normal
  /\ jt.highSurrogate = <<>>

\* C31: after any sequence of transform calls the raw buffer is the
\* in-order concatenation of the chunks consumed, a backslash at the end of
\* a chunk neither dropped nor doubled, and a chunk that ends in the
\* Escaped state has emitted nothing.
C31_RawBufferIsInput ==
  jt.pc = "open" =>
    /\ jt.buffer = Delivered(jt)
    /\ jt.escapeState = EscapeState.Escaped => (jt.output = <<>> /\ jt.tokens = <<>>)

\* A chunk has ended on the backslash of an escaped quote.
C31_ChunkEndsOnBackslash ==
  /\ jt.pc = "open"
  /\ jt.escapeState = EscapeState.Escaped
  /\ jt.rest # <<>>
  /\ Delivered(jt) = Str("{\"k\":\"a\\")
  /\ jt.buffer = Str("{\"k\":\"a\\")

RECURSIVE IsSubsequence(_, _)
\* Whether the elements of s occur in t in the order they have in s.
IsSubsequence(s, t) ==
  IF s = <<>> THEN TRUE
  ELSE IF t = <<>> THEN FALSE
  ELSE IF Head(s) = Head(t) THEN IsSubsequence(Tail(s), Tail(t))
  ELSE IsSubsequence(s, Tail(t))

\* C36: the text transform does not reorder: after any sequence of chunks
\* the code points of a pattern-free input appear in the concatenated
\* output in the relative order they have in the input.
C36_InputOrderKept ==
  (tt.pc \in {"open", "closed"} /\ ~HasPattern(Flatten(tt.input))) =>
    IsSubsequence(Flatten(tt.input), Flatten(tt.output))

\* C37: while the text transform scans a chunk the safe index is at least
\* 0 and at most the number of pending code points, and it is 0 right after
\* a forced window emission.
C37_SafeIndexInRange ==
  [][/\ tt'.pc = "scan" =>
          (0 <= tt'.lastSafeIndex /\ tt'.lastSafeIndex <= Len(tt'.codePoints))
     /\ (tt.pc = "scan" /\ tt'.pc = "scan" /\ Len(tt'.output) = Len(tt.output) + 1) =>
          tt'.lastSafeIndex = 0]_vars

\* The scan has just emitted a window before the end of the chunk, and an
\* earlier state of a scan had its safe index at the last pending code point.
C37_AfterForcedWindow ==
  /\ tt.pc = "scan"
  /\ Len(tt.input) = 1
  /\ Len(tt.output) = 1
  /\ tt.codePoints = <<>>
  /\ tt.lastSafeIndex = 0
  /\ tt.i <= Len(tt.allBytes)

(* The content type of a response or of a multipart part: the regular      *)
(* expressions of replaceInResponse, each by what it matches.              *)
(***************************************************************************)

\* \s of a regular expression, on the code units the model uses.
RegExpSpace == {9, 10, 11, 12, 13, 32, 160}

RECURSIVE RunNotIn(_, _, _)
\* The length of the longest run from position p of characters outside
\* the set stop.
RunNotIn(s, p, stop) ==
  IF p > Len(s) \/ s[p] \in stop THEN 0 ELSE 1 + RunNotIn(s, p + 1, stop)

RECURSIVE RunIn(_, _, _)
\* The length of the longest run from position p of characters of set.
RunIn(s, p, set) ==
  IF p > Len(s) \/ s[p] \notin set THEN 0 ELSE 1 + RunIn(s, p + 1, set)

RECURSIVE WordRun(_, _)
\* The length of the longest run of \w from position p.
WordRun(s, p) == IF p > Len(s) \/ ~IsWordChar(s[p]) THEN 0 ELSE 1 + WordRun(s, p + 1)

NoCapture == [ok |-> FALSE, value |-> <<>>]
Capture(value) == [ok |-> TRUE, value |-> value]

\* /^application\/(\w+\+)?json/.test(contentType)
IsJsonType(ct) ==
  LET app == Str("application/")
      p == Len(app) + 1
      w == WordRun(ct, p)
  IN /\ StartsWith(ct, app)
     /\ \/ OccursAt(ct, Str("json"), p)
        \/ w >= 1 /\ OccursAt(ct, Str("+json"), p + w)

\* /boundary=([^;]+)/i.exec(contentType): the capture of the leftmost match.
BoundaryMatch(ct) ==
  LET key == Str("boundary=")
      low == ToLowerCase(ct)
      hits == {p \in 1..Len(ct) : OccursAt(low, key, p) /\ RunNotIn(ct, p + Len(key), {Ord(";")}) >= 1}
  IN IF hits = {} THEN NoCapture
     ELSE LET p == CHOOSE p \in hits : \A q \in hits : p <= q
          IN Capture(SubSeq(ct, p + Len(key), p + Len(key) - 1 + RunNotIn(ct, p + Len(key), {Ord(";")})))

\* /charset\s*=\s*([^;]+)/i.exec(contentType): \s* gives back characters
\* until the capture has one.
CharsetMatch(ct) ==
  LET key == Str("charset")
      low == ToLowerCase(ct)
      at(p) == LET e == p + Len(key) + RunIn(ct, p + Len(key), RegExpSpace)
                   ws == RunIn(ct, e + 1, RegExpSpace)
                   ks == {k \in 0..ws : RunNotIn(ct, e + 1 + k, {Ord(";")}) >= 1}
               IN IF ~OccursAt(low, key, p) \/ CharAt(ct, e) # Ord("=") \/ ks = {} THEN NoCapture
                  ELSE LET k == CHOOSE k \in ks : \A k2 \in ks : k >= k2
                       IN Capture(SubSeq(ct, e + 1 + k, e + k + RunNotIn(ct, e + 1 + k, {Ord(";")})))
      hits == {p \in 1..Len(ct) : at(p).ok}
  IN IF hits = {} THEN NoCapture ELSE at(CHOOSE p \in hits : \A q \in hits : p <= q)

\* /content-type:\s*([^;\r\n]+)/i.exec(headers)
PartContentTypeMatch(headers) ==
  LET key == Str("content-type:")
      low == ToLowerCase(headers)
      stop == {Ord(";"), CR, LF}
      at(p) == LET e == p + Len(key)
                   ws == RunIn(headers, e, RegExpSpace)
                   ks == {k \in 0..ws : RunNotIn(headers, e + k, stop) >= 1}
               IN IF ~OccursAt(low, key, p) \/ ks = {} THEN NoCapture
                  ELSE LET k == CHOOSE k \in ks : \A k2 \in ks : k >= k2
                       IN Capture(SubSeq(headers, e + k, e + k - 1 + RunNotIn(headers, e + k, stop)))
      hits == {p \in 1..Len(headers) : at(p).ok}
  IN IF hits = {} THEN NoCapture ELSE at(CHOOSE p \in hits : \A q \in hits : p <= q)

\* The labels of UTF-8 that new TextDecoder accepts in the model; any
\* other label counts as unsupported (other encodings are not modelled).
SupportedLabels == {Str("utf-8"), Str("utf8")}

\* "Improved charset detection with strict validation"
EncodingOf(ct) ==
  IF CharsetMatch(ct).ok /\ Trim(ToLowerCase(CharsetMatch(ct).value)) \in SupportedLabels
  THEN CharsetMatch(ct).value
  ELSE Str("utf-8")

(***************************************************************************)
(* The buffered bodies: JSON (parse, deepReplace, stringify) and multipart. *)
(***************************************************************************)

\* JSON.stringify of a value r.v of heap r.heap.
StringifyValue(r) == Stringify(Snapshot(r.heap, r.v))
\* deepReplace(jsonData, seen) with seen = new WeakSet(), jsonData = l.v.
DeepReplaceFresh(l) == deepReplace(l.heap, {}, l.v)
\* JSON.stringify(deepReplace(jsonData, new WeakSet())) for parsed jsonData.
StringifyReplaced(tree) == StringifyValue(DeepReplaceFresh(Load(<<>>, tree)))

\* The catch branch yields no text.
ReplaceParsedOrNothing(r, text) == IF r.ok THEN StringifyReplaced(r.v) ELSE <<>>

\* The try block with the result r of JSON.parse(text), and its catch.
ReplaceParsed(r, text) == IF r.ok THEN StringifyReplaced(r.v) ELSE Replace(text)
\* try JSON.parse / deepReplace / JSON.stringify, catch: replace in the text.
ReplaceInJsonText(text) == ReplaceParsed(JsonParse(text), text)

BlankLine == CRLF \o CRLF

\* How the body of a part is processed, from the content type the header
\* block declares: "json", "text" or "none".
PartMode(headers) ==
  LET m == PartContentTypeMatch(headers)
      partContentType == ToLowerCase(m.value)
  IN IF ~m.ok THEN "none"
     ELSE IF Includes(partContentType, Str("json")) THEN "json"
     ELSE IF \/ Includes(partContentType, Str("text"))
             \/ Includes(partContentType, Str("html"))
             \/ Includes(partContentType, Str("xml")) THEN "text"
     ELSE "none"

\* The body of a part after processing in the given mode.
ProcessBody(mode, body) ==
  CASE mode = "json" -> ReplaceInJsonText(body)
    [] mode = "text" -> Replace(body)
    [] OTHER -> body

\* The callback of parts.map: a part without text and the terminal "--"
\* are returned as they are; otherwise the part is split at the first
\* blank line and put together again around the processed body.
ProcessPieces(pieces) ==
  pieces[1] \o BlankLine \o ProcessBody(PartMode(pieces[1]), Join(Tail(pieces), BlankLine))
ProcessPart(part) ==
  IF Trim(part) = <<>> \/ Trim(part) = Str("--") THEN part
  ELSE ProcessPieces(Split(part, BlankLine))

\* parts.map(...)
ProcessParts(parts) == [i \in 1..Len(parts) |-> ProcessPart(parts[i])]

\* split on --boundary, map, join with --boundary.
ProcessMultipart(text, boundary) ==
  Join(ProcessParts(Split(text, Str("--") \o boundary)), Str("--") \o boundary)

(***************************************************************************)
(* The streamed bodies: TextDecoderStream, the transform, TextEncoderStream *)
(***************************************************************************)

DEFAULT_MAX_WINDOW == 1024

\* The length of the longest prefix of bytes that does not end inside a
\* UTF-8 sequence (the decoder keeps the rest for the next chunk).
CompletePrefixLen(bytes) ==
  LET n == Len(bytes)
      cut == {k \in 1..Min(3, n) :
                /\ getUtf8SequenceInfo(bytes[n - k + 1]) > k
                /\ \A q \in (n - k + 2)..n : getUtf8SequenceInfo(bytes[q]) = 0}
  IN IF cut = {} THEN n ELSE n - (CHOOSE k \in cut : TRUE)

RECURSIVE DecodeChunks(_, _, _)
\* The text chunks a fatal TextDecoderStream makes of the byte chunks;
\* carry is the unfinished sequence, acc the text chunks so far.
DecodeChunks(chunks, carry, acc) ==
  IF chunks = <<>> THEN [ok |-> carry = <<>>, chunks |-> acc]
  ELSE LET bytes == carry \o Head(chunks)
           k == CompletePrefixLen(bytes)
           d == DecodeFrom(Take(bytes, k), <<>>)
       IN IF ~d.ok THEN [ok |-> FALSE, chunks |-> acc]
          ELSE DecodeChunks(Tail(chunks), Drop(bytes, k),
                            IF d.text = <<>> THEN acc ELSE Append(acc, d.text))

RECURSIVE TextTransformAll(_, _)
TextTransformAll(t, chunks) ==
  IF chunks = <<>> THEN t
  ELSE TextTransformAll(RunScan(BeginScan(t, Head(chunks))), Tail(chunks))

\* The text transform after the whole stream: every chunk, then flush.
RunTextStream(chunks) ==
  FlushText(TextTransformAll(NewTextTransformer(DEFAULT_MAX_WINDOW), chunks))

NoBody == [kind |-> "none"]
BytesBody(bytes) == [kind |-> "bytes", bytes |-> bytes]
ErroredBody == [kind |-> "errored"]
\* A body that is a stream: the byte chunks of the source and the
\* transform they are piped through ("none", "json" or "text").
StreamBody(transform, chunks) == [kind |-> "stream", transform |-> transform, chunks |-> chunks]

\* The end of a pipe: the transformer t after its flush, encoded.
EncodedOutput(t) ==
  IF t.errored THEN ErroredBody ELSE BytesBody(Utf8Encode(Flatten(t.output)))

\* The decoded chunks d through the transform named, then the encoder.
PipeThrough(transform, d) ==
  IF ~d.ok THEN ErroredBody
  ELSE IF transform = "json" THEN EncodedOutput(RunJsonStream(d.chunks))
  ELSE EncodedOutput([errored |-> FALSE, output |-> RunTextStream(d.chunks).output])

\* The bytes read when a consumer reads a body to its end.
ReadBody(body) ==
  IF body.kind # "stream" THEN body
  ELSE IF body.transform = "none" THEN BytesBody(Flatten(body.chunks))
  ELSE PipeThrough(body.transform, DecodeChunks(body.chunks, <<>>, <<>>))

(***************************************************************************)
(* replaceInResponse.  A response is [status, statusText, headers, body];  *)
(* the result adds outcome ("returned", or "rejected" when the promise     *)
(* rejects) and the dispatch path taken.                                   *)
(***************************************************************************)

ContentLength == Str("content-length")
TransferEncoding == Str("transfer-encoding")

\* What replaceInResponse works out before it looks at the body.
Analyse(response, updated) ==
  [hadTransferEncoding |-> HeadersHas(response.headers, TransferEncoding),
   isChunked |-> HeadersHas(updated, TransferEncoding),
   contentType |-> ToLowerCase(HeadersGet(updated, Str("content-type"))),
   updatedHeaders |->
     IF HeadersHas(updated, TransferEncoding) \/ HeadersHas(response.headers, TransferEncoding)
     THEN HeadersDelete(updated, ContentLength)
     ELSE updated]

isJson(a) == IsJsonType(a.contentType)
isMultipart(a) == StartsWith(a.contentType, Str("multipart/"))
isTextLike(a) ==
  \/ Includes(a.contentType, Str("text"))
  \/ Includes(a.contentType, Str("html"))
  \/ Includes(a.contentType, Str("xml"))
  \/ Includes(a.contentType, Str("csv"))
\* let boundary = '' ... boundary = boundaryMatch[1]
BoundaryOf(a) == IF isMultipart(a) THEN BoundaryMatch(a.contentType).value ELSE <<>>
\* Content-length is set whatever the transfer-encoding.
BufferedAlways(a) == TRUE

Buffered(a) == ~a.isChunked /\ ~a.hadTransferEncoding

\* new Response(body, {headers}): the status line is the default one.
NewResponseDefaultStatus(response, path, headers, body) ==
  [outcome |-> "returned", path |-> path, status |-> 200,
   statusText |-> <<>>, headers |-> NewHeaders(headers), body |-> body]

\* new Response(body, {status, statusText, headers})
NewResponse(response, path, headers, body) ==
  [outcome |-> "returned", path |-> path, status |-> response.status,
   statusText |-> response.statusText, headers |-> NewHeaders(headers), body |-> body]
Rejected(response, path) ==
  [outcome |-> "rejected", path |-> path, status |-> response.status,
   statusText |-> response.statusText, headers |-> <<>>, body |-> NoBody]

\* A response built from replacedBytes that keeps the content-length the
\* headers came with.
BytesResponseKeepingLength(response, a, path, replacedBytes) ==
  NewResponse(response, path, a.updatedHeaders, BytesBody(replacedBytes))

\* A response built from replacedBytes, with content-length set "if
\* response wasn't originally chunked AND wasn't chunked now".
BytesResponse(response, a, path, replacedBytes) ==
  NewResponse(response, path,
              IF Buffered(a)
              THEN HeadersSet(a.updatedHeaders, ContentLength, NumberToString(Len(replacedBytes)))
              ELSE a.updatedHeaders,
              BytesBody(replacedBytes))

\* The buffered paths once the body is decoded (d): the text is rewritten
\* as the path says and encoded.
RewriteDecoded(response, a, path, d) ==
  IF ~d.ok THEN Rejected(response, path)
  ELSE BytesResponse(response, a, path,
         Utf8Encode(IF path = "multipart" THEN ProcessMultipart(d.text, BoundaryOf(a))
                    ELSE ReplaceInJsonText(d.text)))

\* The text path without transfer-encoding: the transformed stream is read
\* to its end inside replaceInResponse.
AccumulateText(response, a, read) ==
  IF read.kind = "errored" THEN Rejected(response, "text")
  ELSE BytesResponse(response, a, "text", read.bytes)

\* The body of replaceInResponse after the headers are updated.
Dispatch(response, a) ==
  IF ~isJson(a) /\ ~isMultipart(a) /\ ~isTextLike(a)
  THEN NewResponse(response, "pass-through", a.updatedHeaders, response.body)
  ELSE IF response.body.kind = "none"
  THEN NewResponse(response, "no body", a.updatedHeaders, NoBody)
  ELSE IF (isMultipart(a) /\ BoundaryOf(a) # <<>>) \/ (isJson(a) /\ Buffered(a))
  THEN RewriteDecoded(response, a,
                      IF isMultipart(a) /\ BoundaryOf(a) # <<>> THEN "multipart"
                      ELSE "buffered JSON",
                      Utf8Decode(Flatten(response.body.chunks)))
  ELSE IF isJson(a)
  THEN NewResponse(response, "streamed JSON", a.updatedHeaders,
                   StreamBody("json", response.body.chunks))
  ELSE IF Buffered(a)
  THEN AccumulateText(response, a, ReadBody(StreamBody("text", response.body.chunks)))
  ELSE NewResponse(response, "streamed text", a.updatedHeaders,
                   StreamBody("text", response.body.chunks))

\* replaceInResponse(search, replacement, response) for the pattern of the model.
replaceInResponse(response) == Dispatch(response, Analyse(response, UpdateHeaders(response.headers)))

(***************************************************************************)
(* SpecDispatch: replaceInResponse on responses of every content type,     *)
(* with and without transfer-encoding, with a few other headers and with   *)
(* or without a body; the consumer then reads the returned body.           *)
(***************************************************************************)

\* The result before replaceInResponse returns.
NoResponse == [outcome |-> "none"]

\* A multipart body of one text part.
MultipartBodyText ==
  Str("--b1") \o CRLF \o Str("Content-Type: text/plain") \o BlankLine \o Str("cab")
  \o CRLF \o Str("--b1--") \o CRLF

\* The content-type header of the response: none, or one value.
ContentTypes ==
  {<<>>, Str("application/octet-stream"), Str("application/json"),
   Str("text/plain; charset=utf-8"), Str("multipart/mixed; boundary=b1")}

\* The other headers of the response, as the server sent them.
OtherHeaders ==
  {<<>>,
   <<Header(Str("x-a"), Str("cab"))>>,
   <<Header(ContentLength, Str("2"))>>,
   <<Header(SetCookie, Str("a=ab"))>>,
   <<Header(SetCookie, Str("a=ab")), Header(SetCookie, Str("b=ab"))>>}

\* The texts a body of the content type may hold: a well-formed one first,
\* and for JSON a document that is cut short.
WellFormedText(contentType) ==
  IF contentType = Str("application/json") THEN Str("{\"a\":\"ab\"}")
  ELSE IF contentType = Str("multipart/mixed; boundary=b1")
  THEN MultipartBodyText
  ELSE Str("cab ab")
BodyTexts(contentType) ==
  {WellFormedText(contentType)}
  \cup (IF contentType = Str("application/json") THEN {Str("{\"a\":\"cab\"")} ELSE {})

\* Bytes that are not UTF-8 (0xFF never occurs in UTF-8), and the two bytes
\* of U+00E9 delivered in two chunks.
InvalidUtf8 == <<Utf8Encode(Str("\"ab")) \o <<255>> \o Utf8Encode(Str("\""))>>
SplitSequence == <<Utf8Encode(Str("\"ab")) \o <<195>>, <<169>> \o Utf8Encode(Str("\""))>>

\* The bodies of a response of the content type: none, each text in one
\* chunk, the well-formed text cut in two, and the byte sequences above.
BodiesOf(contentType) ==
  {NoBody,
   StreamBody("none", <<Utf8Encode(Take(WellFormedText(contentType), 4)),
                        Utf8Encode(Drop(WellFormedText(contentType), 4))>>),
   StreamBody("none", InvalidUtf8),
   StreamBody("none", SplitSequence)}
  \cup {StreamBody("none", <<Utf8Encode(text)>>) : text \in BodyTexts(contentType)}

DispatchResponse(contentType, chunked, others, body) ==
  [status |-> 200, statusText |-> Str("OK"),
   headers |-> (IF contentType = <<>> THEN <<>>
                ELSE <<Header(Str("content-type"), contentType)>>)
               \o (IF chunked THEN <<Header(TransferEncoding, Str("chunked"))>> ELSE <<>>)
               \o others,
   body |-> body]

\* The status lines of the responses.
StatusLines ==
  {[status |-> 200, statusText |-> Str("OK")],
   [status |-> 404, statusText |-> Str("Not Found")]}

RsInit ==
  /\ \E contentType \in ContentTypes, chunked \in BOOLEAN, others \in OtherHeaders :
       \E body \in BodiesOf(contentType), line \in StatusLines :
         rs = [pc |-> "request",
               response |-> [DispatchResponse(contentType, chunked, others, body)
                               EXCEPT !.status = line.status,
                                      !.statusText = line.statusText],
               result |-> NoResponse, read |-> NoBody]
  /\ rx = Idle /\ tt = Idle /\ jt = Idle /\ dr = Idle /\ mp = Idle /\ calls = Idle /\ u8 = Idle

\* await replaceInResponse(search, replacement, response)
RsReplace ==
  /\ rs.pc = "request"
  /\ rs' = [rs EXCEPT !.pc = "returned", !.result = replaceInResponse(rs.response)]
  /\ UNCHANGED <<rx, tt, jt, dr, mp, calls, u8>>

\* The caller reads the body of the returned response to its end.
RsRead ==
  /\ rs.pc = "returned"
  /\ rs.result.outcome = "returned"
  /\ rs' = [rs EXCEPT !.pc = "read", !.read = ReadBody(rs.result.body)]
  /\ UNCHANGED <<rx, tt, jt, dr, mp, calls, u8>>

RsNext == RsReplace \/ RsRead

SpecDispatch == RsInit /\ [][RsNext]_vars

\* The headers a response shows, content-length left out.
ShownHeaders(list) == SelectSeq(IterableHeaders(list), LAMBDA h : h.name # ContentLength)

\* C6: on every dispatch path the returned response carries exactly the
\* headers of the original, each value being the original value with every
\* occurrence of the pattern replaced; content-length is left out of the
\* comparison.
C6_HeadersRewritten ==
  (rs.pc # "request" /\ rs.result.outcome = "returned") =>
    ShownHeaders(rs.result.headers)
         = [i \in 1..Len(ShownHeaders(rs.response.headers)) |->
              Header(ShownHeaders(rs.response.headers)[i].name,
                     Replace(ShownHeaders(rs.response.headers)[i].value))]

\* C11: when the original response has a transfer-encoding header, the
\* returned response has no content-length header and keeps
\* transfer-encoding, on every dispatch path; a content-length header that
\* the original did not carry with that value is only there when the
\* original has no transfer-encoding header.
C11_TransferEncodingBookkeeping ==
  (rs.pc # "request" /\ rs.result.outcome = "returned") =>
    /\ HeadersHas(rs.response.headers, TransferEncoding) =>
         /\ ~HeadersHas(rs.result.headers, ContentLength)
         /\ HeadersHas(rs.result.headers, TransferEncoding)
    /\ (/\ HeadersHas(rs.result.headers, ContentLength)
        /\ HeadersGet(rs.result.headers, ContentLength)
             # HeadersGet(rs.response.headers, ContentLength)) =>
         ~HeadersHas(rs.response.headers, TransferEncoding)

\* A chunked response that carried a content-length has been rewritten.
C11_ChunkedRewritten ==
  /\ rs.pc = "returned"
  /\ rs.result.outcome = "returned"
  /\ rs.result.path = "streamed JSON"
  /\ HeadersHas(rs.response.headers, TransferEncoding)
  /\ HeadersHas(rs.response.headers, ContentLength)
  /\ ~HeadersHas(rs.result.headers, ContentLength)

(***************************************************************************)
\* The body of the original response, decoded (ok = FALSE when its bytes
\* are not UTF-8).
OriginalText == Utf8Decode(Flatten(rs.response.body.chunks))
\* The original is a JSON response without transfer-encoding and with a body.
BufferedJsonRequest ==
  /\ rs.pc # "request"
  /\ HeadersGet(rs.response.headers, Str("content-type")) = Str("application/json")
  /\ ~HeadersHas(rs.response.headers, TransferEncoding)
  /\ rs.response.body.kind = "stream"

\* C13: on the buffered JSON path a body that JSON.parse rejects is not an
\* error: the call returns a response whose body is the original text with
\* the pattern replaced, nothing of the text dropped.
C13_BufferedFallback ==
  (BufferedJsonRequest /\ OriginalText.ok /\ ~JsonParse(OriginalText.text).ok) =>
    /\ rs.result.outcome = "returned"
    /\ rs.result.path = "buffered JSON"
    /\ rs.result.body = BytesBody(Utf8Encode(Replace(OriginalText.text)))

\* The document cut short has come back with the pattern replaced.
C13_FallbackTaken ==
  /\ BufferedJsonRequest
  /\ OriginalText.ok
  /\ OriginalText.text = Str("{\"a\":\"cab\"")
  /\ rs.result.outcome = "returned"
  /\ rs.result.body = BytesBody(Utf8Encode(Str("{\"a\":\"cX\"")))

\* C14: recoverable conditions never abort a rewrite: replaceInResponse
\* does not reject and the body it returns can be read to its end without
\* an error, on any path; the one failure that reaches the caller is that
\* of the streaming JSON path.
C14_NeverAborts ==
  /\ rs.pc # "request" => rs.result.outcome = "returned"
  /\ (rs.pc = "read" /\ rs.read.kind = "errored") => rs.result.path = "streamed JSON"

(***************************************************************************)
\* C20: on every dispatch path the returned response has the status and
\* the statusText of the original, and a response without a body yields a
\* response without one, which reads as empty.
C20_StatusAndEmptyBody ==
  (rs.pc # "request" /\ rs.result.outcome = "returned") =>
    /\ rs.result.status = rs.response.status
    /\ rs.result.statusText = rs.response.statusText
    /\ rs.response.body.kind = "none" =>
         /\ rs.result.body.kind = "none"
         /\ rs.pc = "read" => rs.read = NoBody

\* A 404 text response without a body has been rewritten and read.
C20_NoBodyNotFound ==
  /\ rs.pc = "read"
  /\ rs.response.status = 404
  /\ rs.response.body.kind = "none"
  /\ rs.result.path = "no body"
  /\ rs.result.status = 404
  /\ rs.result.statusText = Str("Not Found")
  /\ rs.read = NoBody

\* The paths that return a body held in memory as a whole.
BufferedPaths == {"multipart", "buffered JSON", "text"}

\* C38: on every path that returns a fully buffered body for a response
\* without transfer-encoding (multipart, buffered JSON with its text
\* fallback, buffered text) the content-length header of the returned
\* response is the number of bytes of the returned body.
C38_ContentLengthIsBodyLength ==
  (/\ rs.pc # "request"
   /\ rs.result.outcome = "returned"
   /\ rs.result.path \in BufferedPaths
   /\ ~HeadersHas(rs.response.headers, TransferEncoding)) =>
    /\ rs.result.body.kind = "bytes"
    /\ HeadersHas(rs.result.headers, ContentLength)
    /\ HeadersGet(rs.result.headers, ContentLength)
         = NumberToString(Len(rs.result.body.bytes))
    /\ rs.pc = "read" =>
         (rs.read.kind = "bytes" /\ Len(rs.read.bytes) = Len(rs.result.body.bytes))

\* A text response that came with content-length 2 has been returned with
\* the length of its rewritten body and read to its end.
C38_StaleLengthReplaced ==
  /\ rs.pc = "read"
  /\ rs.result.path = "text"
  /\ HeadersGet(rs.response.headers, ContentLength) = Str("2")
  /\ rs.read.kind = "bytes"
  /\ Len(rs.read.bytes) > 2
  /\ HeadersGet(rs.result.headers, ContentLength) = NumberToString(Len(rs.read.bytes))

\* The content type of the original response is neither JSON, multipart nor
\* text-like.
OpaqueContentType ==
  HeadersGet(rs.response.headers, Str("content-type"))
    \in {<<>>, Str("application/octet-stream")}

\* C39: when the content type is neither JSON, multipart nor text-like the
\* returned response carries the original body stream unchanged, also when
\* the body holds occurrences of the pattern, while the header values are
\* rewritten as on every other path.
C39_OpaqueBodyPassedThrough ==
  (rs.pc # "request" /\ OpaqueContentType) =>
    /\ rs.result.outcome = "returned"
    /\ rs.result.body = rs.response.body
    /\ rs.pc = "read" => rs.read = ReadBody(rs.response.body)
    /\ ShownHeaders(rs.result.headers)
         = [i \in 1..Len(ShownHeaders(rs.response.headers)) |->
              Header(ShownHeaders(rs.response.headers)[i].name,
                     Replace(ShownHeaders(rs.response.headers)[i].value))]

(* SpecCalls: two replaceInResponse calls in progress at once, both given  *)
(* the same RegExp object of the caller as search and each its own         *)
(* response with transfer-encoding, so that each returned body is a        *)
(* stream whose chunks are transformed as the consumer pulls them.  A      *)
(* handler (start, transform, flush) runs to its end before another one    *)
(* starts; the handlers of the two calls interleave in any order.          *)
(* calls.search is the caller's RegExp object; calls.call[c] holds the     *)
(* closure of call c: its matcher, its transformer, the decoded chunks     *)
(* still to come (rest) and what the consumer has read (read).             *)
(***************************************************************************)

CallIds == {1, 2}

\* The RegExp objects the caller may pass: /ab/ or /ab/g, used before
\* (lastIndex 1) or not.
CallerSearches ==
  {[source |-> Str("ab"), flags |-> f, lastIndex |-> n] :
     f \in {{}, {"g"}}, n \in {0, 1}}

\* A matcher that is the caller's own object whenever it is global already.
MatcherReusingSearch(search) ==
  [regex |-> NormalizeSearch([kind |-> "regexp", source |-> search.source,
                              flags |-> search.flags]),
   own |-> "g" \notin search.flags, lastIndex |-> search.lastIndex]

\* const regex = new RegExp(search.source, ...): an object of the call's own
\* (own = TRUE) whose lastIndex starts at 0; source and flags are read from
\* the caller's object.
Matcher(search) ==
  [regex |-> NormalizeSearch([kind |-> "regexp", source |-> search.source,
                              flags |-> search.flags]),
   own |-> TRUE, lastIndex |-> 0]

\* The objects after value.replace(regex, replacement) through the matcher
\* of call c: a replacement pass of a global RegExp starts by setting
\* lastIndex to 0 and leaves it at 0, on the object it is given.
AfterReplacePass(cs, c) ==
  IF cs.call[c].matcher.own
  THEN [cs EXCEPT !.call[c].matcher.lastIndex = 0]
  ELSE [cs EXCEPT !.search.lastIndex = 0]

\* The responses of SpecCalls: JSON or text, transfer-encoding: chunked,
\* the body in one chunk or in two.
CallResponses ==
  {DispatchResponse(contentType, TRUE, others, body) :
     contentType \in {Str("application/json"), Str("text/plain; charset=utf-8")},
     others \in {<<Header(Str("x-a"), Str("cab"))>>},
     body \in {StreamBody("none", <<Utf8Encode(Str("[\"ab\"]"))>>),
               StreamBody("none", <<Utf8Encode(Str("[\"a")), Utf8Encode(Str("b\", 1]"))>>),
               StreamBody("none", <<Utf8Encode(Str("[\"ab\",")), Utf8Encode(Str("1"))>>)}}

\* A call that has not started.
NewCall(response) ==
  [pc |-> "request", response |-> response, matcher |-> Idle, result |-> NoResponse,
   transformer |-> Idle, rest |-> <<>>, read |-> NoBody]

\* replaceInResponse up to its return: the matcher, the rewritten headers
\* and the stream with its transformer after start().
StartCall(call, search, result) ==
  [call EXCEPT !.pc = "streaming",
               !.matcher = Matcher(search),
               !.result = result,
               !.transformer = IF result.body.transform = "json"
                               THEN NewJsonTransformer
                               ELSE NewTextTransformer(DEFAULT_MAX_WINDOW),
               !.rest = DecodeChunks(result.body.chunks, <<>>, <<>>).chunks]

\* transform(chunk, controller) of the call's transformer on its next chunk.
TransformCall(call) ==
  [call EXCEPT !.transformer = IF call.result.body.transform = "json"
                               THEN JsonTransform(call.transformer, Head(call.rest))
                               ELSE RunScan(BeginScan(call.transformer, Head(call.rest))),
               !.rest = Tail(call.rest)]

\* What the consumer has read once the transformer t is flushed.
Flushed(call, t) ==
  [call EXCEPT !.pc = "closed",
               !.transformer = t,
               !.read = IF call.result.body.transform = "json" THEN EncodedOutput(t)
                        ELSE EncodedOutput([errored |-> FALSE, output |-> t.output])]

\* flush(controller) of the call's transformer.
FlushCall(call) ==
  Flushed(call, IF call.result.body.transform = "json"
                THEN JsonFlush(call.transformer)
                ELSE FlushText(call.transformer))

CallsInit ==
  /\ \E search \in CallerSearches, first \in CallResponses, second \in CallResponses :
       calls = [search |-> search,
                call |-> [c \in CallIds |-> NewCall(IF c = 1 THEN first ELSE second)]]
  /\ rx = Idle /\ tt = Idle /\ jt = Idle /\ dr = Idle /\ mp = Idle /\ rs = Idle /\ u8 = Idle

\* Call c: await replaceInResponse(search, replacement, response).
CallStart(c) ==
  /\ calls.call[c].pc = "request"
  /\ calls' = AfterReplacePass(
                [calls EXCEPT !.call[c] =
                   StartCall(calls.call[c], calls.search,
                             replaceInResponse(calls.call[c].response))], c)
  /\ UNCHANGED <<rx, tt, jt, dr, mp, rs, u8>>

\* Call c: the consumer pulls, a chunk of the source goes through transform.
CallTransform(c) ==
  /\ calls.call[c].pc = "streaming"
  /\ calls.call[c].rest # <<>>
  /\ calls' = AfterReplacePass(
                [calls EXCEPT !.call[c] = TransformCall(calls.call[c])], c)
  /\ UNCHANGED <<rx, tt, jt, dr, mp, rs, u8>>

\* Call c: the source has ended, flush.
CallFlush(c) ==
  /\ calls.call[c].pc = "streaming"
  /\ calls.call[c].rest = <<>>
  /\ calls' = AfterReplacePass(
                [calls EXCEPT !.call[c] = FlushCall(calls.call[c])], c)
  /\ UNCHANGED <<rx, tt, jt, dr, mp, rs, u8>>

CallsNext == \E c \in CallIds : CallStart(c) \/ CallTransform(c) \/ CallFlush(c)

SpecCalls == CallsInit /\ [][CallsNext]_vars

\* The call has returned what replaceInResponse returns for its response
\* alone, and its consumer has read what a consumer of that response reads.
AsAlone(call) ==
  /\ call.result.headers = replaceInResponse(call.response).headers
  /\ call.read = ReadBody(replaceInResponse(call.response).body)

\* C19: under every interleaving of the steps of two calls, each call ends
\* with the headers and the output it produces when it runs alone, and no
\* step changes the caller's RegExp object.
C19_CallsIndependent ==
  [][/\ calls'.search = calls.search
     /\ \A c \in CallIds : calls'.call[c].pc = "closed" => AsAlone(calls'.call[c])]_vars

\* Both calls are in the middle of their streams, one chunk consumed and
\* one to come, and the caller's /ab/g still has the lastIndex it came with.
C19_BothMidStream ==
  /\ calls.search = [source |-> Str("ab"), flags |-> {"g"}, lastIndex |-> 1]
  /\ \A c \in CallIds :
       /\ calls.call[c].pc = "streaming"
       /\ Len(calls.call[c].response.body.chunks) = 2
       /\ Len(calls.call[c].rest) = 1
  /\ calls.call[1].result.body.transform = "json"
  /\ calls.call[2].result.body.transform = "text"

(* SpecMultipart: replaceInResponse on a multipart response whose body is  *)
(* built from up to MaxParts parts between delimiter lines.  The boundary  *)
(* parameter of the content type is lower case, upper case or quoted.      *)
(***************************************************************************)

MaxParts == 2

\* A part: the text between two delimiters, with the content type it
\* declares ("json", "badjson" for JSON with a body that does not parse,
\* "text", or "none" for an unrecognized or absent one).
Part(declared, headers, body) ==
  [declared |-> declared,
   text |-> CRLF \o headers \o (IF headers = <<>> THEN <<>> ELSE BlankLine) \o body \o CRLF]

PartKinds ==
  {Part("json", Str("Content-Type: application/json"), Str("{\"ab\":\"ab\"}")),
   Part("badjson", Str("Content-Type: application/json"), Str("{\"ab\":ab")),
   Part("text", Str("Content-Type: text/plain"), Str("ab c")),
   Part("text", Str("X-Tag: ab") \o CRLF \o Str("Content-Type: text/plain"), Str("ab c")),
   Part("text", Str("content-type: text/html; charset=utf-8"), Str("<i>ab</i>")),
   Part("text", Str("Content-Type: application/xml"), Str("<a>ab</a>")),
   Part("none", Str("Content-Type: application/octet-stream"), Str("ab")),
   Part("none", Str("X-Id: 1"), Str("ab")),
   Part("none", <<>>, Str("ab"))}

\* The boundary as the content type gives it (param) and as the delimiter
\* lines of the body use it (marker).
Boundaries ==
  {[param |-> Str("b1"), marker |-> Str("b1")],
   [param |-> Str("ab1"), marker |-> Str("ab1")],
   [param |-> Str("B1"), marker |-> Str("B1")],
   [param |-> Str("\"b1\""), marker |-> Str("b1")]}

\* The body: --marker before every part, --marker-- and a line end after.
MultipartBody(parts, marker) ==
  Flatten([i \in 1..Len(parts) |-> Str("--") \o marker \o parts[i].text])
  \o Str("--") \o marker \o Str("--") \o CRLF

MultipartResponse(parts, b) ==
  [status |-> 200, statusText |-> Str("OK"),
   headers |-> <<Header(Str("content-type"), Str("multipart/mixed; boundary=") \o b.param)>>,
   body |-> StreamBody("none", <<Utf8Encode(MultipartBody(parts, b.marker))>>)]

MpInit ==
  /\ \E parts \in SeqsUpTo(PartKinds, MaxParts) \ {<<>>}, b \in Boundaries :
       mp = [pc |-> "request", parts |-> parts, boundary |-> b,
             response |-> MultipartResponse(parts, b), result |-> NoResponse]
  /\ rx = Idle /\ tt = Idle /\ jt = Idle /\ dr = Idle /\ rs = Idle /\ calls = Idle /\ u8 = Idle

\* await replaceInResponse(search, replacement, response)
MpReplace ==
  /\ mp.pc = "request"
  /\ mp' = [mp EXCEPT !.pc = "returned", !.result = replaceInResponse(mp.response)]
  /\ UNCHANGED <<rx, tt, jt, dr, rs, calls, u8>>

MpNext == MpReplace

SpecMultipart == MpInit /\ [][MpNext]_vars

\* The body of a part: what follows its first blank line.
BodyOfPart(text) == Join(Tail(Split(text, BlankLine)), BlankLine)
\* The parts of the returned body, split at the delimiter of the input.
ReturnedParts == Split(mp.result.body.bytes, Utf8Encode(Str("--") \o mp.boundary.marker))
\* The i-th part of the returned body, decoded.
ReturnedPart(i) == Utf8Decode(ReturnedParts[i + 1]).text

\* C9: every non-empty, non-terminal part is dispatched by its own declared
\* content type: a JSON part has the pattern replaced in its JSON string
\* leaves, a text, html or xml part has it replaced verbatim in its body.
C9_MultipartDispatch ==
  mp.pc = "returned" =>
    /\ mp.result.outcome = "returned"
    /\ Len(ReturnedParts) = Len(mp.parts) + 2
    /\ \A i \in 1..Len(mp.parts) :
         /\ mp.parts[i].declared = "json" =>
              /\ JsonParse(BodyOfPart(ReturnedPart(i))).ok
              /\ JsonParse(BodyOfPart(ReturnedPart(i))).v
                   = ReplaceStrings(JsonParse(BodyOfPart(mp.parts[i].text)).v)
         /\ mp.parts[i].declared = "text" =>
              BodyOfPart(ReturnedPart(i)) = Replace(BodyOfPart(mp.parts[i].text))

\* C10: a part whose content type is unrecognized or absent is returned
\* byte-identical, with or without a blank line in it, whatever the case
\* or quoting of the boundary parameter; a body of such parts only is
\* returned byte-identical.
C10_UnknownPartIdentical ==
  mp.pc = "returned" =>
    /\ mp.result.outcome = "returned"
    /\ Len(ReturnedParts) = Len(mp.parts) + 2
    /\ \A i \in 1..Len(mp.parts) :
         mp.parts[i].declared = "none" => ReturnedParts[i + 1] = Utf8Encode(mp.parts[i].text)
    /\ (\A i \in 1..Len(mp.parts) : mp.parts[i].declared = "none") =>
         mp.result.body.bytes = Flatten(mp.response.body.chunks)


\* The i-th part of the input is returned as its declared content type
\* asks: a JSON part with its string leaves replaced, a text part with the
\* pattern replaced in its body, any other part as it is.
AsUsual(i) ==
  CASE mp.parts[i].declared = "json" ->
         /\ JsonParse(BodyOfPart(ReturnedPart(i))).ok
         /\ JsonParse(BodyOfPart(ReturnedPart(i))).v
              = ReplaceStrings(JsonParse(BodyOfPart(mp.parts[i].text)).v)
    [] mp.parts[i].declared = "text" ->
         BodyOfPart(ReturnedPart(i)) = Replace(BodyOfPart(mp.parts[i].text))
    [] OTHER -> ReturnedParts[i + 1] = Utf8Encode(mp.parts[i].text)

\* C34: a part that declares a JSON content type and whose body does not
\* parse as JSON is no error: the pattern is replaced in its body as in
\* text, and the other parts of the body are processed as usual.
C34_JsonPartFallback ==
  (mp.pc = "returned" /\ \E i \in 1..Len(mp.parts) : mp.parts[i].declared = "badjson") =>
    /\ mp.result.outcome = "returned"
    /\ Len(ReturnedParts) = Len(mp.parts) + 2
    /\ \A i \in 1..Len(mp.parts) :
         IF mp.parts[i].declared = "badjson"
         THEN /\ ~JsonParse(BodyOfPart(mp.parts[i].text)).ok
              /\ BodyOfPart(ReturnedPart(i)) = Replace(BodyOfPart(mp.parts[i].text))
              /\ Replace(BodyOfPart(mp.parts[i].text)) # BodyOfPart(mp.parts[i].text)
         ELSE AsUsual(i)

\* The header block of a part: what precedes its first blank line.
HeadersOfPart(text) == Head(Split(text, BlankLine))

\* C35: the multipart path applies the pattern to part bodies only: every
\* delimiter line and the header block of every part are in the returned
\* body unchanged and in their original order, also where they contain an
\* occurrence of the pattern.
C35_HeadersAndMarkersKept ==
  mp.pc = "returned" =>
    /\ mp.result.outcome = "returned"
    /\ Len(ReturnedParts) = Len(mp.parts) + 2
    /\ ReturnedParts[1] = <<>>
    /\ ReturnedParts[Len(ReturnedParts)] = Utf8Encode(Str("--") \o CRLF)
    /\ \A i \in 1..Len(mp.parts) :
         Take(ReturnedPart(i), Len(HeadersOfPart(mp.parts[i].text)))
           = HeadersOfPart(mp.parts[i].text)
====
